---------------------------- MODULE Spec2Model ----------------------------
(***************************************************************************)
(* Cart/session synchronisation of the WhatsApp e-store.                   *)
(*                                                                         *)
(* Two layers are modelled.                                                *)
(*  - The API client (frontend/src/lib/api.ts) and the storefront page     *)
(*    (frontend/src/pages/Index.tsx, components/Cart.tsx, and the login    *)
(*    dialog AdminLoginDialog): translated from the TypeScript source.     *)
(*  - The canonical store behind the REST endpoints (SessionStore,         *)
(*    CartStore, MutationGateway, ChannelLinker): its source is not part   *)
(*    of the frontend tree, so it is modelled from the specification       *)
(*    (sections 4 to 7).  A write is made line by line on a working copy   *)
(*    of the cart, which is published when the write completes.            *)
(*                                                                         *)
(* Session ids are 1..MaxSessions; 0 stands for the empty string "" the    *)
(* storefront holds before a session is initialised.  Prices are integers  *)
(* (cents).                                                                *)
(***************************************************************************)
EXTENDS Integers, Sequences, FiniteSets, TLC

\* ------------------------------------------------------------- bounds
MaxSessions == 2
MaxQty == 2
MaxCalls == 2
MaxRemote == 1
MaxClicks == 1
MaxCheckout == 2
MaxModalQty == 2
MaxAdminClicks == 1
MaxLost == 1

\* ------------------------------------------------------------- values
Products == {"p1", "p2"}
Identities == {"I", "J"}
NoIdentity == "none"
NoProduct == "none"
NoColor == "undefined"
SessionIds == 1..MaxSessions

\* The catalogue the storefront lists (productsData.items): price and colour.
CatalogPrice(p) == IF p = "p1" THEN 2 ELSE 3
CatalogColor(p) == IF p = "p1" THEN "red" ELSE ""

\* ---------------------------------------------------- sequence helpers
RECURSIVE SumQty(_)
SumQty(lines) ==
  IF lines = <<>> THEN 0 ELSE Head(lines).quantity + SumQty(Tail(lines))

RECURSIVE SumPrice(_)
SumPrice(lines) ==
  IF lines = <<>> THEN 0
  ELSE Head(lines).price * Head(lines).quantity + SumPrice(Tail(lines))

\* Indices of the lines of a cart that carry product p.
LinesOf(lines, p) == {i \in 1..Len(lines) : lines[i].product_id = p}

\* Quantity held for p over all its lines (0 when absent).
RECURSIVE QtyOf(_, _)
QtyOf(lines, p) ==
  IF lines = <<>> THEN 0
  ELSE (IF Head(lines).product_id = p THEN Head(lines).quantity ELSE 0)
       + QtyOf(Tail(lines), p)


\* ------------------------------------------------- API client (api.ts)
\* An HTTP request as the API client's fetch() sends it.  Unused parts hold
\* NoProduct / NoIdentity / 0 / NoColor, and the items of an order are empty
\* for every request but an order.
HttpReq(method, route, session, product, quantity, price, color, phone) ==
  [method |-> method, route |-> route, session |-> session,
   product_id |-> product, quantity |-> quantity, price |-> price,
   color |-> color, phone |-> phone, items |-> <<>>]

\* Variant of getOrCreateSession that never adds the query string.
getOrCreateSession_noPhone(phone) ==
  HttpReq("GET", "cart/session", 0, NoProduct, 0, 0, NoColor, NoIdentity)

\* cartApi.getOrCreateSession(phone?): the query string is added only for a
\* truthy phone.
getOrCreateSession(phone) ==
  HttpReq("GET", "cart/session", 0, NoProduct, 0, 0, NoColor,
          IF phone # "" /\ phone # NoIdentity THEN phone ELSE NoIdentity)

\* cartApi.getCart(sessionId)
getCart(sessionId) ==
  HttpReq("GET", "cart/:s", sessionId, NoProduct, 0, 0, NoColor, NoIdentity)

\* Variant of addToCart that leaves the item's quantity out of the body (the
\* endpoint then adds one unit).
addToCart_unitQuantity(sessionId, item) ==
  HttpReq("POST", "cart/:s/add", sessionId, item.product_id, 1,
          item.price, item.color, NoIdentity)

\* Variant of addToCart that sends the quantity to the set-quantity endpoint.
addToCart_asSetQuantity(sessionId, item) ==
  HttpReq("PUT", "cart/:s/item/:p", sessionId, item.product_id, item.quantity,
          0, NoColor, NoIdentity)

\* cartApi.addToCart(sessionId, item): the item is sent as the JSON body.
addToCart(sessionId, item) ==
  HttpReq("POST", "cart/:s/add", sessionId, item.product_id, item.quantity,
          item.price, item.color, NoIdentity)

\* Variant of updateCartItem that asks to delete the line for a quantity
\* below 1.
updateCartItem_removeBelowOne(sessionId, productId, quantity) ==
  IF quantity < 1
  THEN HttpReq("DELETE", "cart/:s/item/:p", sessionId, productId, 0, 0,
               NoColor, NoIdentity)
  ELSE HttpReq("PUT", "cart/:s/item/:p", sessionId, productId, quantity, 0,
               NoColor, NoIdentity)

\* Variant of updateCartItem that sends the quantity to the add endpoint.
updateCartItem_asAdd(sessionId, productId, quantity) ==
  HttpReq("POST", "cart/:s/add", sessionId, productId, quantity, 0,
          NoColor, NoIdentity)

\* cartApi.updateCartItem(sessionId, productId, quantity)
updateCartItem(sessionId, productId, quantity) ==
  HttpReq("PUT", "cart/:s/item/:p", sessionId, productId, quantity, 0,
          NoColor, NoIdentity)

\* Variant of removeFromCart that leaves the item part out of the URL.
removeFromCart_cartUrl(sessionId, productId) ==
  HttpReq("DELETE", "cart/:s", sessionId, NoProduct, 0, 0, NoColor,
          NoIdentity)

\* cartApi.removeFromCart(sessionId, productId)
removeFromCart(sessionId, productId) ==
  HttpReq("DELETE", "cart/:s/item/:p", sessionId, productId, 0, 0,
          NoColor, NoIdentity)

\* cartApi.clearCart(sessionId)
clearCart(sessionId) ==
  HttpReq("DELETE", "cart/:s", sessionId, NoProduct, 0, 0, NoColor,
          NoIdentity)

\* Variant of linkSession that sends the session under the key sessionId, a
\* key the endpoint does not read.
linkSession_camelKey(phone, sessionId) ==
  HttpReq("POST", "whatsapp/link-session", 0, NoProduct, 0, 0, NoColor,
          phone)

\* whatsappApi.linkSession(phone, sessionId)
linkSession(phone, sessionId) ==
  HttpReq("POST", "whatsapp/link-session", sessionId, NoProduct, 0, 0,
          NoColor, phone)

\* orderApi.createOrder(order, sessionId?): the order is the JSON body; the
\* session_id query parameter is added only for a truthy sessionId (session
\* 0 stands for its absence).
createOrder(order, sessionId) ==
  [HttpReq("POST", "orders", sessionId, NoProduct, 0, 0, NoColor, NoIdentity)
     EXCEPT !.items = order.items]

\* productApi.adminCreateProduct(product): the product is the JSON body.
adminCreateProduct(product) ==
  HttpReq("POST", "admin/products", 0, product, 0, 0, NoColor, NoIdentity)

\* productApi.adminUpdateProduct(id, product)
adminUpdateProduct(id) ==
  HttpReq("PATCH", "admin/products/:p", 0, id, 0, 0, NoColor, NoIdentity)

\* productApi.adminDeleteProduct(id, sku)
adminDeleteProduct(id) ==
  HttpReq("DELETE", "admin/products/:p", 0, id, 0, 0, NoColor, NoIdentity)

\* What an API function hands its caller for a response: it throws for a
\* response that is not ok, and returns the parsed body otherwise.
ApiResult(resp) ==
  IF resp.kind # "ok"
  THEN [threw |-> TRUE, message |-> resp.kind, data |-> resp.body]
  ELSE [threw |-> FALSE, message |-> "", data |-> resp.body]

\* A call of an API function: what the caller asked for.
Call(fn, sessionId, productId, quantity, price, color, phone) ==
  [fn |-> fn, sessionId |-> sessionId, product_id |-> productId,
   quantity |-> quantity, price |-> price, color |-> color, phone |-> phone,
   items |-> <<>>]

\* The request the API client builds for a call.
Build(c) ==
  CASE c.fn = "getOrCreateSession" -> getOrCreateSession(c.phone)
    [] c.fn = "getCart" -> getCart(c.sessionId)
    [] c.fn = "addToCart" ->
         addToCart(c.sessionId,
                   [product_id |-> c.product_id, quantity |-> c.quantity,
                    price |-> c.price, color |-> c.color])
    [] c.fn = "updateCartItem" ->
         updateCartItem(c.sessionId, c.product_id, c.quantity)
    [] c.fn = "removeFromCart" -> removeFromCart(c.sessionId, c.product_id)
    [] c.fn = "clearCart" -> clearCart(c.sessionId)
    [] c.fn = "createOrder" -> createOrder([items |-> c.items], c.sessionId)
    [] c.fn = "adminCreateProduct" -> adminCreateProduct(c.product_id)
    [] c.fn = "adminUpdateProduct" -> adminUpdateProduct(c.product_id)
    [] c.fn = "adminDeleteProduct" -> adminDeleteProduct(c.product_id)
    [] OTHER -> linkSession(c.phone, c.sessionId)

\* ------------------------------------- canonical store (from the spec)
\* Variant of CartAdd that refreshes an existing line's snapshot from the
\* request.
CartAdd_overwriteSnapshot(lines, r) ==
  IF LinesOf(lines, r.product_id) # {}
  THEN LET i == CHOOSE j \in LinesOf(lines, r.product_id) :
                  \A k \in LinesOf(lines, r.product_id) : j <= k
       IN [lines EXCEPT ![i].quantity = @ + r.quantity,
                        ![i].price = r.price, ![i].color = r.color]
  ELSE Append(lines, [product_id |-> r.product_id, quantity |-> r.quantity,
                      price |-> r.price, color |-> r.color])

\* CartStore.add: increment an existing line, else append a new line with
\* the request's snapshot.
CartAdd(lines, r) ==
  IF LinesOf(lines, r.product_id) # {}
  THEN LET i == CHOOSE j \in LinesOf(lines, r.product_id) :
                  \A k \in LinesOf(lines, r.product_id) : j <= k
       IN [lines EXCEPT ![i].quantity = @ + r.quantity]
  ELSE Append(lines, [product_id |-> r.product_id, quantity |-> r.quantity,
                      price |-> r.price, color |-> r.color])

\* CartStore.setQuantity on a line that exists.
CartSetQuantity(lines, r) ==
  [i \in 1..Len(lines) |->
     IF lines[i].product_id = r.product_id
     THEN [lines[i] EXCEPT !.quantity = r.quantity] ELSE lines[i]]

\* CartStore.remove: drops the line of the product, if any.
RECURSIVE CartRemove(_, _)
CartRemove(lines, p) ==
  IF lines = <<>> THEN <<>>
  ELSE IF Head(lines).product_id = p THEN CartRemove(Tail(lines), p)
  ELSE <<Head(lines)>> \o CartRemove(Tail(lines), p)

\* CartStore.clear
CartClear(lines) == <<>>

\* ChannelLinker's merge of the prior session's cart (from) into the
\* passed-in session's cart (into): quantities of overlapping products are
\* summed, other lines are kept.
RECURSIVE MergeCarts(_, _)
MergeCarts(into, from) ==
  IF from = <<>> THEN into
  ELSE MergeCarts(CartAdd(into, Head(from)), Tail(from))

\* The cart summary every operation returns.  total and item_count are
\* derived values: the store keeps neither, and computes both from the lines
\* it returns when it builds the answer.
CartBody(s, lines) ==
  [session_id |-> s, cart |-> lines, total |-> SumPrice(lines),
   item_count |-> SumQty(lines)]

NoBody == CartBody(0, <<>>)

Response(kind, body) == [kind |-> kind, body |-> body]

\* Variant of ValidShape that does not look at quantities.
ValidShape_anyQuantity(r) ==
  CASE r.route = "cart/:s/add" -> r.product_id # NoProduct
    [] r.route = "whatsapp/link-session" -> r.phone # NoIdentity
    [] OTHER -> TRUE

\* MutationGateway's validation of the request shape.
ValidShape(r) ==
  CASE r.route = "cart/:s/add" -> r.quantity >= 1 /\ r.product_id # NoProduct
    [] r.route = "cart/:s/item/:p" /\ r.method = "PUT" -> r.quantity >= 1
    [] r.route = "whatsapp/link-session" -> r.phone # NoIdentity
    [] OTHER -> TRUE

IsMutation(r) ==
  \/ r.method = "POST" /\ r.route = "cart/:s/add"
  \/ r.method = "PUT" /\ r.route = "cart/:s/item/:p"
  \/ r.method = "DELETE" /\ r.route = "cart/:s/item/:p"
  \/ r.method = "DELETE" /\ r.route = "cart/:s"

\* The outcome of one mutation on a cart: the new lines and the error kind.
ApplyMutation(lines, r) ==
  CASE r.route = "cart/:s/add" ->
         [kind |-> "ok", lines |-> CartAdd(lines, r)]
    [] r.route = "cart/:s/item/:p" /\ r.method = "PUT" ->
         IF LinesOf(lines, r.product_id) = {}
         THEN [kind |-> "ProductNotFound", lines |-> lines]
         ELSE [kind |-> "ok", lines |-> CartSetQuantity(lines, r)]
    [] r.route = "cart/:s/item/:p" /\ r.method = "DELETE" ->
         [kind |-> "ok", lines |-> CartRemove(lines, r.product_id)]
    [] OTHER -> [kind |-> "ok", lines |-> CartClear(lines)]


\* ------------------------------------------------------------- state
\* Each caller has one slot per API hook; a slot holds the call in flight,
\* the request built for it and, once answered, the response.
\*   bot, bot2 - callers of the messaging channel (any API function, any
\*           arguments)
\*   wadd  - the storefront's addToCartMutation
\*   wupd  - the storefront's updateCartMutation
\*   wrem  - the storefront's removeFromCartMutation
\*   wcart - the storefront's cart query
\*   word  - the storefront's createOrderMutation
\*   winit1, winit2 - the storefront's initSession calls (one per effect run
\*           still waiting for its answer)
InitSlots == {"winit1", "winit2"}
BotSlots == {"bot", "bot2"}
Slots ==
  BotSlots \cup {"wadd", "wupd", "wrem", "wcart", "word", "wprod"} \cup InitSlots

\* The storefront's mutation hooks.
WebMutationSlots == {"wadd", "wupd", "wrem"}

VARIABLES
  nSessions,        \* SessionStore: sessions 1..nSessions exist
  linked_identity,  \* SessionStore: session -> identity or NoIdentity
  carts,            \* CartStore: session -> sequence of lines
  queue,            \* MutationGateway: session -> slots queued, arrival order
  lock,             \* MutationGateway: session -> slot being applied, or "free"
  work,             \* CartStore: session -> the cart as the holder of the
                    \*          writer lock has written it so far
  rest,             \* ChannelLinker: session -> lines of the prior session's
                    \*          cart its merge has still to write
  slot,             \* calls in flight, per slot
  sessionId,        \* Index: useState sessionId (0 is "")
  isAdmin,          \* Index: useState isAdmin
  cartData,         \* Index: data of the cart query for the current key
  toasts,           \* Index: what the last toast said
  timers,           \* Index: the live setInterval timers (their closures)
  mounted,          \* Index: the page is mounted
  checkoutDialogOpen, \* Index: useState checkoutDialogOpen
  selectedProduct,  \* Index: useState selectedProduct (NoProduct is null)
  quantity,         \* ProductDetailModal: useState quantity
  showAdminLogin,   \* Index: useState showAdminLogin
  loginTimer,       \* AdminLoginDialog: the 800 ms timer of a submitted form
  nCalls,           \* calls the messaging channel has made
  nClicks,          \* storefront user actions so far
  issued,           \* history: session -> product -> quantity asked to add
                    \*          by the requests that were not lost on the way
  addOnly,          \* history: session -> product -> only adds were issued
  createdFor,       \* history: identity -> sessions created by its getOrCreate
  log,              \* history: session -> requests the gateway queued, in
                    \*          arrival order, since the cart was base
  base              \* history: session -> cart at the start or after its
                    \*          last link merge

vars == <<nSessions, linked_identity, carts, queue, lock, work, rest, slot,
          sessionId,
          isAdmin, cartData, toasts, timers, mounted, checkoutDialogOpen,
          selectedProduct, quantity, showAdminLogin, loginTimer,
          nCalls, nClicks, issued, addOnly, createdFor, log, base>>

serverVars == <<nSessions, linked_identity, carts, queue, lock, work, rest>>
modalVars == <<selectedProduct, quantity>>
adminVars == <<showAdminLogin, loginTimer>>
webVars == <<sessionId, isAdmin, cartData, toasts, timers, mounted,
            checkoutDialogOpen, modalVars, adminVars>>
histVars == <<issued, addOnly, createdFor, log, base>>

NoCall == Call("none", 0, NoProduct, 0, 0, NoColor, NoIdentity)
NoResp == Response("none", NoBody)
IdleSlot == [st |-> "idle", call |-> NoCall, http |-> Build(NoCall),
             resp |-> NoResp, failureCount |-> 0]
NoData == [loaded |-> FALSE, body |-> NoBody]

Exists(s) == s \in 1..nSessions

\* The session an identity is linked to (0 when none).
SessionOf(identity) ==
  IF \E s \in 1..nSessions : linked_identity[s] = identity
  THEN CHOOSE s \in 1..nSessions : linked_identity[s] = identity
  ELSE 0

Init ==
  /\ nSessions = 0
  /\ linked_identity = [s \in SessionIds |-> NoIdentity]
  /\ carts = [s \in SessionIds |-> <<>>]
  /\ queue = [s \in SessionIds |-> <<>>]
  /\ lock = [s \in SessionIds |-> "free"]
  /\ work = carts
  /\ rest = [s \in SessionIds |-> <<>>]
  /\ slot = [x \in Slots |-> IdleSlot]
  /\ sessionId = 0
  /\ isAdmin = FALSE
  /\ cartData = NoData
  /\ toasts = "none"
  /\ timers = {}
  /\ mounted = FALSE
  /\ checkoutDialogOpen = FALSE
  /\ selectedProduct = NoProduct
  /\ quantity = 1
  /\ showAdminLogin = FALSE
  /\ loginTimer = "none"
  /\ nCalls = 0
  /\ nClicks = 0
  /\ issued = [s \in SessionIds |-> [p \in Products |-> 0]]
  /\ addOnly = [s \in SessionIds |-> [p \in Products |-> TRUE]]
  /\ createdFor = [i \in Identities |-> 0]
  /\ log = [s \in SessionIds |-> <<>>]
  /\ base = carts

\* A caller starts a call: the API client builds the request and sends it.
Send(x, c) ==
  slot' = [slot EXCEPT ![x] = [st |-> "sent", call |-> c, http |-> Build(c),
                               resp |-> NoResp, failureCount |-> 0]]

\* History of what callers asked for.
Note(c) ==
  /\ issued' =
       IF c.fn = "addToCart" /\ c.sessionId \in SessionIds
          /\ c.product_id \in Products
       THEN [issued EXCEPT ![c.sessionId][c.product_id] = @ + c.quantity]
       ELSE issued
  /\ addOnly' =
       CASE c.fn \in {"updateCartItem", "removeFromCart"}
              /\ c.sessionId \in SessionIds /\ c.product_id \in Products ->
              [addOnly EXCEPT ![c.sessionId][c.product_id] = FALSE]
         [] c.fn = "clearCart" /\ c.sessionId \in SessionIds ->
              [addOnly EXCEPT ![c.sessionId] = [p \in Products |-> FALSE]]
         [] c.fn = "linkSession" ->
              [s \in SessionIds |-> [p \in Products |-> FALSE]]
         [] OTHER -> addOnly
  /\ UNCHANGED <<createdFor, log, base>>


\* ------------------------------------------ canonical store: operations
Answer(x, kind, body) ==
  slot' = [slot EXCEPT ![x].st = "done", ![x].resp = Response(kind, body)]

\* The request does not reach the store (fetch rejects): the API function
\* throws.  An add that never arrived is taken out of the history of adds.
NetFail(x) ==
  /\ slot[x].st = "sent"
  /\ Answer(x, "NetworkError", NoBody)
  /\ LET c == slot[x].call
     IN issued' =
          IF c.fn = "addToCart" /\ c.sessionId \in SessionIds
             /\ c.product_id \in Products
          THEN [issued EXCEPT ![c.sessionId][c.product_id] = @ - c.quantity]
          ELSE issued
  /\ UNCHANGED <<serverVars, webVars, nCalls, nClicks, addOnly, createdFor,
                 log, base>>

\* Variant of ReadLines that reads the cart as the holder of the writer lock
\* has written it so far.
ReadLines_working(s) == work[s]

\* The lines a reader of session s is given: the cart as the last completed
\* write published it.  A reader takes no lock.
ReadLines(s) == carts[s]

\* SessionStore.getOrCreate(identity?), GET cart/session: the session linked
\* to the identity, else a new anonymous session with an empty cart.  Lookup
\* and creation are one step (creation is serialised).  Once MaxSessions
\* sessions exist the request fails (the response is not ok).
ServeSession(x) ==
  /\ slot[x].st = "sent"
  /\ slot[x].http.method = "GET" /\ slot[x].http.route = "cart/session"
  /\ LET ph == slot[x].http.phone
         s == SessionOf(ph)
     IN IF ph # NoIdentity /\ s # 0
        THEN /\ Answer(x, "ok", CartBody(s, ReadLines(s)))
             /\ UNCHANGED <<nSessions, createdFor>>
        ELSE IF nSessions < MaxSessions
        THEN /\ nSessions' = nSessions + 1
             /\ Answer(x, "ok", CartBody(nSessions + 1, <<>>))
             /\ createdFor' = IF ph \in Identities
                              THEN [createdFor EXCEPT ![ph] = @ + 1]
                              ELSE createdFor
        ELSE /\ Answer(x, "Unavailable", NoBody)
             /\ UNCHANGED <<nSessions, createdFor>>
  /\ UNCHANGED <<linked_identity, carts, queue, lock, work, rest, webVars,
                 nCalls, nClicks, issued, addOnly, log, base>>

\* CartStore.read, GET cart/:s: served without the write lock.
ServeRead(x) ==
  /\ slot[x].st = "sent"
  /\ slot[x].http.method = "GET" /\ slot[x].http.route = "cart/:s"
  /\ LET s == slot[x].http.session
     IN IF Exists(s)
        THEN Answer(x, "ok", CartBody(s, ReadLines(s)))
        ELSE Answer(x, "SessionNotFound", NoBody)
  /\ UNCHANGED <<serverVars, webVars, nCalls, nClicks, histVars>>

\* Variant of SessionKnown that only looks at the upper end of the ids.
SessionKnown_upperEnd(s) == s <= nSessions

\* The gateway's check that the session a mutation names exists.
SessionKnown(s) == Exists(s)

\* MutationGateway receives a mutation: it validates the shape, rejects an
\* unknown session, and queues the request behind the session's earlier ones.
Arrive(x) ==
  /\ slot[x].st = "sent"
  /\ IsMutation(slot[x].http)
  /\ LET r == slot[x].http
     IN IF ~ValidShape(r)
        THEN /\ Answer(x, "ValidationError", NoBody)
             /\ UNCHANGED <<queue, log>>
        ELSE IF ~SessionKnown(r.session)
        THEN /\ Answer(x, "SessionNotFound", NoBody)
             /\ UNCHANGED <<queue, log>>
        ELSE /\ queue' = [queue EXCEPT ![r.session] = Append(@, x)]
             /\ log' = [log EXCEPT ![r.session] = Append(@, r)]
             /\ slot' = [slot EXCEPT ![x].st = "queued"]
  /\ UNCHANGED <<nSessions, linked_identity, carts, lock, work, rest, webVars,
                 nCalls, nClicks, issued, addOnly, createdFor, base>>

\* Variant of Dequeue that takes the request that arrived last.
Dequeue_newestFirst(q) ==
  [next |-> q[Len(q)], rest |-> SubSeq(q, 1, Len(q) - 1)]

\* The gateway's choice among a session's queued requests: the one that
\* arrived first.
Dequeue(q) == [next |-> Head(q), rest |-> Tail(q)]

\* The gateway takes the session's next request once the writer lock is free.
Begin(s) ==
  /\ Exists(s)
  /\ lock[s] = "free"
  /\ queue[s] # <<>>
  /\ lock' = [lock EXCEPT ![s] = Dequeue(queue[s]).next]
  /\ queue' = [queue EXCEPT ![s] = Dequeue(@).rest]
  /\ slot' = [slot EXCEPT ![Dequeue(queue[s]).next].st = "applying"]
  /\ UNCHANGED <<nSessions, linked_identity, carts, work, rest, webVars,
                 nCalls, nClicks, histVars>>

\* The line writes a mutation still has to make on the working cart: clear
\* takes the lines out one at a time, every other mutation writes one line.
WritesLeft(lines, r) ==
  IF r.method = "DELETE" /\ r.route = "cart/:s" THEN Len(lines) ELSE 1

\* CartStore makes the next write of the request that holds the writer lock.
\* A write that is not the last changes the working cart only.  The last
\* write completes the mutation: the working cart is published as the
\* session's cart, the gateway answers with it and releases the lock.
Commit(s) ==
  /\ Exists(s)
  /\ lock[s] \in Slots
  /\ IsMutation(slot[lock[s]].http)
  /\ LET x == lock[s]
         r == slot[x].http
         out == ApplyMutation(work[s], r)
     IN IF WritesLeft(work[s], r) > 1
        THEN /\ work' = [work EXCEPT ![s] = Tail(@)]
             /\ UNCHANGED <<carts, lock, slot>>
        ELSE /\ work' = [work EXCEPT ![s] = out.lines]
             /\ carts' = [carts EXCEPT ![s] = out.lines]
             /\ Answer(x, out.kind,
                       IF out.kind = "ok" THEN CartBody(s, out.lines)
                       ELSE NoBody)
             /\ lock' = [lock EXCEPT ![s] = "free"]
  /\ UNCHANGED <<nSessions, linked_identity, queue, rest, webVars, nCalls,
                 nClicks, histVars>>

\* Variant of Relink that leaves the prior session's identity in place.
Relink_keepPrior(li, a, b, identity) ==
  [s \in SessionIds |-> IF s = b THEN identity ELSE li[s]]

\* ChannelLinker's update of the identities: session b becomes the
\* identity's session, and the prior session a (0 when none) loses it.
\* Section 4.4 puts no condition on the identity session b had before: a
\* session linked to another identity is given the new one, and the other
\* identity is left without a session.
Relink(li, a, b, identity) ==
  [s \in SessionIds |->
     IF s = b THEN identity ELSE IF s = a THEN NoIdentity ELSE li[s]]

IsLink(r) == r.method = "POST" /\ r.route = "whatsapp/link-session"

\* ChannelLinker may start once neither the passed-in session b nor the
\* identity's prior session a (0 when none) has a writer.  Nothing else is
\* required: requests that wait in the queue of either session do not hold a
\* link back (the order of a link and the mutations queued before it is
\* left open), and neither does another link of the same identity.
LinkMayStart(a, b) ==
  /\ lock[b] = "free"
  /\ a # 0 => lock[a] = "free"

\* Variant of MergeNeeded that merges whenever the identity has a session.
MergeNeeded_anyPrior(a, b) == a # 0

\* ChannelLinker merges when the identity has a prior session a that is not
\* the passed-in session b.
MergeNeeded(a, b) == a # 0 /\ a # b

\* ChannelLinker.link(identity, session_id): takes exclusive access to the
\* passed-in session and to the session the identity is linked to at that
\* moment, whose lines are the ones the merge has to write.
LinkBegin(x) ==
  /\ slot[x].st = "sent"
  /\ IsLink(slot[x].http)
  /\ LET r == slot[x].http
         b == r.session
         a == SessionOf(r.phone)
     IN IF ~ValidShape(r)
        THEN /\ Answer(x, "ValidationError", NoBody)
             /\ UNCHANGED <<lock, rest>>
        ELSE IF ~Exists(b)
        THEN /\ Answer(x, "SessionNotFound", NoBody)
             /\ UNCHANGED <<lock, rest>>
        ELSE /\ LinkMayStart(a, b)
             /\ lock' = [s \in SessionIds |->
                           IF s = b \/ s = a THEN x ELSE lock[s]]
             /\ rest' = [rest EXCEPT ![b] =
                           IF MergeNeeded(a, b) THEN carts[a] ELSE <<>>]
             /\ slot' = [slot EXCEPT ![x].st = "applying"]
  /\ UNCHANGED <<nSessions, linked_identity, carts, queue, work, webVars,
                 nCalls, nClicks, histVars>>

\* The link makes its next write.  A write that is not the last adds one
\* line of the prior session's cart to the working cart of the passed-in
\* session.  The last write completes the link: the merged cart is published
\* as the passed-in session's cart, the identity of the session the
\* identity is linked to by then is cleared and the identity points at the
\* passed-in session.  When another link has given the identity a session
\* in the meantime, the cart of that session is merged as well, from its
\* published state.  Re-linking the same pair changes nothing.
LinkCommit(x) ==
  /\ slot[x].st = "applying"
  /\ IsLink(slot[x].http)
  /\ LET r == slot[x].http
         b == r.session
         a == SessionOf(r.phone)
         own == MergeCarts(work[b], rest[b])
         merged == IF MergeNeeded(a, b) /\ lock[a] # x
                   THEN MergeCarts(own, carts[a]) ELSE own
     IN IF Len(rest[b]) > 1
        THEN /\ work' = [work EXCEPT ![b] = CartAdd(@, Head(rest[b]))]
             /\ rest' = [rest EXCEPT ![b] = Tail(@)]
             /\ UNCHANGED <<carts, linked_identity, lock, slot, log, base>>
        ELSE /\ work' = [work EXCEPT ![b] = merged]
             /\ rest' = [rest EXCEPT ![b] = <<>>]
             /\ carts' = [carts EXCEPT ![b] = merged]
             /\ linked_identity' = Relink(linked_identity, a, b, r.phone)
             /\ Answer(x, "ok", CartBody(b, merged))
             /\ base' = [base EXCEPT ![b] = merged]
             /\ log' = [log EXCEPT ![b] =
                          SubSeq(@, Len(@) - Len(queue[b]) + 1, Len(@))]
             /\ lock' = [s \in SessionIds |->
                           IF lock[s] = x THEN "free" ELSE lock[s]]
  /\ UNCHANGED <<nSessions, queue, webVars, nCalls, nClicks, issued, addOnly,
                 createdFor>>


\* ------------------------------------------------- messaging channel
\* The other channel calls the same endpoints with arguments of its own:
\* a session that exists and a product with a quantity (p1 with every
\* quantity from 0 to MaxQty, p2 with MaxQty); and each mutation once with
\* an unknown session id (0).  It reads a cart with getCart.  One of its
\* adds is made after the catalogue was edited: it carries another price
\* and colour for p1.
BotLines ==
  {<<"p1", q>> : q \in 0..MaxQty} \cup {<<"p2", MaxQty>>}

BotCalls ==
  LET S == 1..nSessions
  IN {Call("getOrCreateSession", 0, NoProduct, 0, 0, NoColor, ph) :
        ph \in Identities \cup {NoIdentity}}
     \cup {Call("getCart", s, NoProduct, 0, 0, NoColor, NoIdentity) :
             s \in S}
     \cup {Call("addToCart", s, l[1], l[2], CatalogPrice(l[1]), NoColor,
                  NoIdentity) : s \in S, l \in BotLines}
     \cup {Call("updateCartItem", s, l[1], l[2], 0, NoColor, NoIdentity) :
             s \in S, l \in BotLines}
     \cup {Call("removeFromCart", s, p, 0, 0, NoColor, NoIdentity) :
             s \in S, p \in Products}
     \cup {Call("clearCart", s, NoProduct, 0, 0, NoColor, NoIdentity) :
             s \in S}
     \cup {Call("linkSession", s, NoProduct, 0, 0, NoColor, ph) :
             s \in S, ph \in Identities}
     \cup {Call("addToCart", s, "p1", 1, CatalogPrice("p1") + 1, "blue",
                  NoIdentity) : s \in S}
     \cup {Call("addToCart", 0, "p1", 1, CatalogPrice("p1"), NoColor,
                NoIdentity),
           Call("updateCartItem", 0, "p1", 1, 0, NoColor, NoIdentity),
           Call("removeFromCart", 0, "p1", 0, 0, NoColor, NoIdentity),
           Call("clearCart", 0, NoProduct, 0, 0, NoColor, NoIdentity),
           Call("linkSession", 0, NoProduct, 0, 0, NoColor, "I")}

\* The calls of a second caller of the messaging channel, which compete
\* with the first caller's: it opens or finds the identity's session, reads
\* a cart, adds MaxQty of p1, sets p1 to 1, removes p1, or links a session.
CompetingCalls ==
  {c \in BotCalls :
     \/ c.fn = "getOrCreateSession" /\ c.phone # NoIdentity
     \/ /\ c.sessionId # 0
        /\ \/ c.fn \in {"getCart", "linkSession"}
           \/ /\ c.product_id = "p1"
              /\ \/ c.fn = "removeFromCart"
                 \/ c.fn = "updateCartItem" /\ c.quantity = 1
                 \/ /\ c.fn = "addToCart" /\ c.quantity = MaxQty
                    /\ c.price = CatalogPrice("p1")}

BotCall(x, c) ==
  /\ x \in BotSlots
  /\ nCalls < MaxCalls
  /\ slot[x].st = "idle"
  /\ c \in BotCalls
  /\ Send(x, c)
  /\ Note(c)
  /\ nCalls' = nCalls + 1
  /\ UNCHANGED <<serverVars, webVars, nClicks>>

\* The caller gets its answer.
BotReply(x) ==
  /\ x \in BotSlots
  /\ slot[x].st = "done"
  /\ slot' = [slot EXCEPT ![x] = IdleSlot]
  /\ UNCHANGED <<serverVars, webVars, nCalls, nClicks, histVars>>

\* ------------------------------------------------ storefront (Index.tsx)
\* Variant of CartView that renders every line with quantity 1.
CartView_unitQuantity(data) ==
  IF ~data.loaded THEN <<>>
  ELSE [i \in 1..Len(data.body.cart) |->
          [product |->
             [id |-> data.body.cart[i].product_id,
              price |-> data.body.cart[i].price,
              color |-> IF data.body.cart[i].color = NoColor THEN ""
                        ELSE data.body.cart[i].color],
           quantity |-> 1]]

\* The cart the page renders, mapped from the cart query's data:
\* cartData?.cart?.map(...) || [].
CartView(data) ==
  IF ~data.loaded THEN <<>>
  ELSE [i \in 1..Len(data.body.cart) |->
          [product |->
             [id |-> data.body.cart[i].product_id,
              price |-> data.body.cart[i].price,
              color |-> IF data.body.cart[i].color = NoColor THEN ""
                        ELSE data.body.cart[i].color],
           quantity |-> data.body.cart[i].quantity]]

cart == CartView(cartData)

\* Cart.tsx: subtotal = items.reduce(sum + price * quantity, 0)
RECURSIVE subtotal(_)
subtotal(items) ==
  IF items = <<>> THEN 0
  ELSE Head(items).product.price * Head(items).quantity
       + subtotal(Tail(items))

\* Amounts that may have a fractional part are held in tenths of the price
\* unit: Tenths(n) is the amount of n units.
Tenths(n) == 10 * n

\* Cart.tsx: tax = subtotal * 0.1, in tenths.
tax(items) == Tenths(subtotal(items)) \div 10

\* Cart.tsx: total = subtotal + tax, the figure the cart panel shows as
\* Total, in tenths.
total(items) == Tenths(subtotal(items)) + tax(items)

\* Index.tsx: cartItemCount = cart.reduce(sum + quantity, 0)
RECURSIVE cartItemCount(_)
cartItemCount(items) ==
  IF items = <<>> THEN 0
  ELSE Head(items).quantity + cartItemCount(Tail(items))

\* The cart query is enabled for a non-empty session id outside admin mode.
QueryEnabled(sid, adm) == sid # 0 /\ ~adm

Closure(sid, adm) == [sessionId |-> sid, isAdmin |-> adm]

SentSlot(c) ==
  [st |-> "sent", call |-> c, http |-> Build(c), resp |-> NoResp,
   failureCount |-> 0]

\* queryClient.invalidateQueries(["cart", sid]): the query of that key is
\* refetched when it is the mounted page's active query.  A fetch in flight
\* is cancelled and started again when the query already has data; while the
\* query has no data yet the fetch in flight is kept and its answer is
\* delivered.
Invalidated(w, sid, sidNow, adm) ==
  IF mounted /\ sid = sidNow /\ QueryEnabled(sidNow, adm)
     /\ (w.st = "idle" \/ cartData.loaded)
  THEN SentSlot(Call("getCart", sid, NoProduct, 0, 0, NoColor, NoIdentity))
  ELSE w

FreeInitSlot == CHOOSE x \in InitSlots : slot[x].st = "idle"

InitCall == Call("getOrCreateSession", 0, NoProduct, 0, 0, NoColor, NoIdentity)

\* Variant of EffectTimers without the cleanup of the previous run.
EffectTimers_noCleanup(oldSid, oldAdm, sid, adm) ==
  timers \cup {Closure(sid, adm)}

\* The effect of Index (deps sessionId, queryClient, isAdmin) run for the
\* values sid, adm after the values oldSid, oldAdm: the cleanup clears the
\* previous run's interval; the body calls initSession() and sets an interval
\* whose callback closes over sid and adm.
EffectTimers(oldSid, oldAdm, sid, adm) ==
  (timers \ {Closure(oldSid, oldAdm)}) \cup {Closure(sid, adm)}

\* Mount: first render, then the effect.  The page is opened once.
WebMount ==
  /\ ~mounted
  /\ nClicks = 0
  /\ mounted' = TRUE
  /\ timers' = timers \cup {Closure(sessionId, isAdmin)}
  /\ slot' = [slot EXCEPT ![FreeInitSlot] = SentSlot(InitCall)]
  /\ UNCHANGED <<serverVars, sessionId, isAdmin, cartData, toasts,
                 checkoutDialogOpen, modalVars, adminVars, nCalls, nClicks, histVars>>

\* initSession's await returns: setSessionId(session.session_id), or the
\* catch block; after the page is gone setSessionId does nothing.  A changed
\* sessionId re-renders: the cart query gets a new
\* key (no data yet, fetched when enabled) and the effect runs again.
WebInitReply(x) ==
  /\ x \in InitSlots
  /\ slot[x].st = "done"
  /\ LET res == ApiResult(slot[x].resp)
         new == res.data.session_id
     IN IF ~mounted \/ res.threw \/ new = sessionId
        THEN /\ slot' = [slot EXCEPT ![x] = IdleSlot]
             /\ UNCHANGED <<sessionId, cartData, timers>>
        ELSE /\ sessionId' = new
             /\ cartData' = NoData
             /\ timers' = EffectTimers(sessionId, isAdmin, new, isAdmin)
             /\ slot' = [slot EXCEPT
                  ![x] = SentSlot(InitCall),
                  !["wcart"] =
                     IF QueryEnabled(new, isAdmin)
                     THEN SentSlot(Call("getCart", new, NoProduct, 0, 0,
                                        NoColor, NoIdentity))
                     ELSE IdleSlot]
  /\ UNCHANGED <<serverVars, isAdmin, toasts, mounted, checkoutDialogOpen,
                 modalVars, adminVars, nCalls, nClicks, histVars>>


\* The page is closed: the effect's cleanup clears the interval and the
\* component's state and query observer are gone.  Requests in flight stay
\* in flight, and so does the timer of a submitted login form, which nothing
\* clears.  A visitor who has submitted the login form may still close the
\* page.
WebUnmount ==
  /\ mounted
  /\ \/ nClicks < (IF isAdmin THEN MaxClicks + MaxAdminClicks ELSE MaxClicks)
     \/ loginTimer = "page"
  /\ mounted' = FALSE
  /\ timers' = timers \ {Closure(sessionId, isAdmin)}
  /\ sessionId' = 0
  /\ isAdmin' = FALSE
  /\ cartData' = NoData
  /\ checkoutDialogOpen' = FALSE
  /\ selectedProduct' = NoProduct
  /\ quantity' = 1
  /\ showAdminLogin' = FALSE
  /\ loginTimer' = IF loginTimer = "page" THEN "gone" ELSE loginTimer
  /\ nClicks' = nClicks + 1
  /\ UNCHANGED <<serverVars, slot, toasts, nCalls, histVars>>

\* What a change of isAdmin to adm does on the next render: the effect runs
\* again (cleanup, initSession, a new interval) and the cart query is enabled
\* or disabled; an enabled query without a fetch in flight fetches.
AdminModeSlots(adm) ==
  [slot EXCEPT
     ![FreeInitSlot] = SentSlot(InitCall),
     !["wcart"] =
        IF QueryEnabled(sessionId, adm) /\ slot["wcart"].st = "idle"
        THEN SentSlot(Call("getCart", sessionId, NoProduct, 0, 0, NoColor,
                           NoIdentity))
        ELSE @]

\* handleModeToggle: in customer mode the header's button opens the login
\* dialog; in admin mode it leaves admin mode and toasts.
ModeToggle ==
  /\ mounted
  /\ nClicks < MaxClicks + MaxAdminClicks
  /\ nClicks' = nClicks + 1
  /\ IF ~isAdmin
     THEN /\ showAdminLogin' = TRUE
          /\ UNCHANGED <<isAdmin, timers, toasts, slot>>
     ELSE /\ \E x \in InitSlots : slot[x].st = "idle"
          /\ isAdmin' = FALSE
          /\ timers' = EffectTimers(sessionId, isAdmin, sessionId, FALSE)
          /\ toasts' = "Switched to Customer Mode"
          /\ slot' = AdminModeSlots(FALSE)
          /\ UNCHANGED showAdminLogin
  /\ UNCHANGED <<serverVars, sessionId, cartData, mounted,
                 checkoutDialogOpen, modalVars, loginTimer, nCalls, histVars>>

\* The login dialog's onClose: setShowAdminLogin(false).
LoginClose ==
  /\ mounted
  /\ showAdminLogin
  /\ showAdminLogin' = FALSE
  /\ UNCHANGED <<serverVars, slot, sessionId, isAdmin, cartData, toasts,
                 timers, mounted, checkoutDialogOpen, modalVars, loginTimer,
                 nCalls, nClicks, histVars>>

\* AdminLoginDialog.handleSubmit with the e-mail address and the password
\* typed so far: nothing happens while either is empty; otherwise the dialog
\* starts a timer of 800 ms whose callback calls onLogin.  While the timer
\* runs the submit button is disabled.
LoginSubmit(email, password) ==
  /\ mounted
  /\ showAdminLogin
  /\ loginTimer = "none"
  /\ loginTimer' = IF email = "" \/ password = "" THEN loginTimer ELSE "page"
  /\ UNCHANGED <<serverVars, slot, sessionId, isAdmin, cartData, toasts,
                 timers, mounted, checkoutDialogOpen, modalVars,
                 showAdminLogin, nCalls, nClicks, histVars>>

\* The timer of the login form fires: handleAdminLogin.  On the page that
\* started it, isAdmin becomes true and the dialog closes; after that page was
\* closed the state setters do nothing.  The toast is shown either way.
AdminLogin ==
  /\ loginTimer # "none"
  /\ loginTimer' = "none"
  /\ toasts' = "Welcome to Admin Panel"
  /\ IF loginTimer = "page"
     THEN /\ showAdminLogin' = FALSE
          /\ isAdmin' = TRUE
          /\ IF isAdmin
             THEN UNCHANGED <<timers, slot>>
             ELSE /\ \E x \in InitSlots : slot[x].st = "idle"
                  /\ timers' = EffectTimers(sessionId, isAdmin, sessionId, TRUE)
                  /\ slot' = AdminModeSlots(TRUE)
     ELSE UNCHANGED <<showAdminLogin, isAdmin, timers, slot>>
  /\ UNCHANGED <<serverVars, sessionId, cartData, mounted,
                 checkoutDialogOpen, modalVars, nCalls, nClicks, histVars>>

\* The product mutations of the admin panel.
ProductFns == {"adminCreateProduct", "adminUpdateProduct", "adminDeleteProduct"}

\* handleProductSubmit / handleDeleteProduct: the admin panel's product form
\* or delete confirmation starts createProductMutation, updateProductMutation
\* or deleteProductMutation.
AdminProductSubmit(fn, p) ==
  /\ mounted /\ isAdmin
  /\ nClicks < MaxClicks + MaxAdminClicks
  /\ slot["wprod"].st = "idle"
  /\ nClicks' = nClicks + 1
  /\ Send("wprod", Call(fn, 0, p, 0, 0, NoColor, NoIdentity))
  /\ UNCHANGED <<serverVars, webVars, nCalls, histVars>>

\* The product endpoints answer a request: accepted or refused.
ServeProduct(x) ==
  /\ slot[x].st = "sent"
  /\ slot[x].http.route \in {"admin/products", "admin/products/:p"}
  /\ \E kind \in {"ok", "ProductRefused"} : Answer(x, kind, NoBody)
  /\ UNCHANGED <<serverVars, webVars, nCalls, nClicks, histVars>>

\* A product mutation settles: onSuccess toasts "Success", onError toasts the
\* error.  The cart query is not touched.
AdminProductReply ==
  /\ slot["wprod"].st = "done"
  /\ toasts' = IF ApiResult(slot["wprod"].resp).threw THEN "Error"
               ELSE "Success"
  /\ slot' = [slot EXCEPT !["wprod"] = IdleSlot]
  /\ UNCHANGED <<serverVars, sessionId, isAdmin, cartData, timers, mounted,
                 checkoutDialogOpen, modalVars, adminVars, nCalls, nClicks,
                 histVars>>

\* The cart query's refetchInterval: a read every interval while the query
\* is enabled, unless one is already in flight.
WebRefetchTick ==
  /\ mounted
  /\ QueryEnabled(sessionId, isAdmin)
  /\ slot["wcart"].st = "idle"
  /\ slot' = [slot EXCEPT !["wcart"] =
       SentSlot(Call("getCart", sessionId, NoProduct, 0, 0, NoColor,
                     NoIdentity))]
  /\ UNCHANGED <<serverVars, webVars, nCalls, nClicks, histVars>>

\* The effect's interval callback, with the sessionId and isAdmin it closed
\* over.
WebTimerTick(c) ==
  /\ c \in timers
  /\ slot' = [slot EXCEPT !["wcart"] =
       IF c.sessionId # 0 /\ ~c.isAdmin
       THEN Invalidated(@, c.sessionId, sessionId, isAdmin) ELSE @]
  /\ UNCHANGED <<serverVars, webVars, nCalls, nClicks, histVars>>

\* The cart query sets no retry option, so the query client's default
\* applies: a failed fetch is tried again up to 3 times (after 1 s, 2 s and
\* 4 s) before the query settles with the error.
DefaultRetry == 3

\* Whether the query client will try the failed fetch in slot w again: while
\* the page is mounted (the query has an observer) and the fetch has failed
\* fewer than DefaultRetry times before.  Whether the query is still enabled
\* is not looked at.
RetryRead(w) == mounted /\ w.failureCount < DefaultRetry

\* A fetch of the cart query that has failed and waits for its retry timer:
\* the query is still fetching, no request is on the wire.
RetrySlot(w) ==
  [st |-> "retry", call |-> w.call, http |-> w.http, resp |-> NoResp,
   failureCount |-> w.failureCount + 1]

\* The cart query's fetch gets its answer.  Data replaces the query's data.
\* An error leaves the data as it was; when the query client retries the
\* fetch it counts the failure and sets the retry timer, and otherwise the
\* query settles.
WebCartReply ==
  /\ slot["wcart"].st = "done"
  /\ LET w == slot["wcart"]
         res == ApiResult(w.resp)
     IN /\ cartData' = IF res.threw \/ ~mounted THEN cartData
                       ELSE [loaded |-> TRUE, body |-> res.data]
        /\ slot' = [slot EXCEPT !["wcart"] =
                       IF res.threw /\ RetryRead(w)
                       THEN RetrySlot(w) ELSE IdleSlot]
  /\ UNCHANGED <<serverVars, sessionId, isAdmin, toasts, timers, mounted,
                 checkoutDialogOpen, modalVars, adminVars, nCalls, nClicks, histVars>>

\* The retry timer of a failed fetch fires: the request is sent again, with
\* the failures counted so far.  When the page was closed during the wait
\* the retry is cancelled and the query settles with the error.
WebRetryTimer ==
  /\ slot["wcart"].st = "retry"
  /\ slot' = [slot EXCEPT !["wcart"] =
       IF mounted THEN [@ EXCEPT !.st = "sent"] ELSE IdleSlot]
  /\ UNCHANGED <<serverVars, webVars, nCalls, nClicks, histVars>>

\* addToCartMutation.mutationFn: the item sent for a listed product.
AddItemCall(sid, p, q) ==
  Call("addToCart", sid, p, q, CatalogPrice(p), CatalogColor(p), NoIdentity)

\* handleAddToCart(productId, quantity) from a product card (quantity 1) or
\* the detail modal (quantity >= 1), for a product listed in productsData.
ClickAdd(p, q) ==
  /\ mounted
  /\ nClicks < MaxClicks
  /\ slot["wadd"].st = "idle"
  /\ nClicks' = nClicks + 1
  /\ Send("wadd", AddItemCall(sessionId, p, q))
  /\ Note(AddItemCall(sessionId, p, q))
  /\ UNCHANGED <<serverVars, webVars, nCalls>>

\* ProductDetailModal.handleAddToCart on the modal of a product that is no
\* longer in productsData: mutationFn throws "Product not found", which
\* onError reports; nothing is sent, and onClose() closes the modal.
ClickAddUnlisted ==
  /\ mounted
  /\ nClicks < MaxClicks
  /\ selectedProduct # NoProduct
  /\ slot["wadd"].st = "idle"
  /\ nClicks' = nClicks + 1
  /\ toasts' = "Error"
  /\ selectedProduct' = NoProduct
  /\ quantity' = 1
  /\ UNCHANGED <<serverVars, slot, sessionId, isAdmin, cartData, timers,
                 mounted, checkoutDialogOpen, adminVars, nCalls, histVars>>

\* addToCartMutation settles: onSuccess invalidates the cart query and
\* toasts; onError toasts the error.
WebAddReply ==
  /\ slot["wadd"].st = "done"
  /\ LET res == ApiResult(slot["wadd"].resp)
     IN IF res.threw
        THEN /\ toasts' = "Error"
             /\ slot' = [slot EXCEPT !["wadd"] = IdleSlot]
        ELSE /\ toasts' = "Added to cart"
             /\ slot' = [slot EXCEPT
                  !["wadd"] = IdleSlot,
                  !["wcart"] = Invalidated(@, sessionId, sessionId, isAdmin)]
  /\ UNCHANGED <<serverVars, sessionId, isAdmin, cartData, timers, mounted,
                 checkoutDialogOpen, modalVars, adminVars, nCalls, nClicks, histVars>>

\* Variant of MinusQuantity without the floor of 1.
MinusQuantity_noFloor(q) == q - 1

\* Cart.tsx: the quantity the minus and plus buttons of a line ask for.
MinusQuantity(q) == IF q - 1 > 1 THEN q - 1 ELSE 1
PlusQuantity(q) == q + 1

UpdateCall(sid, p, q) ==
  Call("updateCartItem", sid, p, q, 0, NoColor, NoIdentity)

\* handleUpdateQuantity from the cart panel's minus or plus button on the
\* i-th rendered line.
ClickQuantity(i, plus) ==
  /\ mounted
  /\ nClicks < MaxClicks
  /\ i \in 1..Len(cart)
  /\ slot["wupd"].st = "idle"
  /\ LET c == UpdateCall(sessionId, cart[i].product.id,
                         IF plus THEN PlusQuantity(cart[i].quantity)
                         ELSE MinusQuantity(cart[i].quantity))
     IN Send("wupd", c) /\ Note(c)
  /\ nClicks' = nClicks + 1
  /\ UNCHANGED <<serverVars, webVars, nCalls>>

\* updateCartMutation settles: onSuccess invalidates the cart query; there
\* is no onError.
WebUpdReply ==
  /\ slot["wupd"].st = "done"
  /\ slot' = [slot EXCEPT
       !["wupd"] = IdleSlot,
       !["wcart"] = IF ApiResult(slot["wupd"].resp).threw THEN @
                    ELSE Invalidated(@, sessionId, sessionId, isAdmin)]
  /\ UNCHANGED <<serverVars, webVars, nCalls, nClicks, histVars>>

RemoveCall(sid, p) ==
  Call("removeFromCart", sid, p, 0, 0, NoColor, NoIdentity)

\* handleRemoveFromCart from the X button of the i-th rendered line.
ClickRemove(i) ==
  /\ mounted
  /\ nClicks < MaxClicks
  /\ i \in 1..Len(cart)
  /\ slot["wrem"].st = "idle"
  /\ Send("wrem", RemoveCall(sessionId, cart[i].product.id))
  /\ Note(RemoveCall(sessionId, cart[i].product.id))
  /\ nClicks' = nClicks + 1
  /\ UNCHANGED <<serverVars, webVars, nCalls>>

\* removeFromCartMutation settles: onSuccess invalidates the cart query and
\* toasts; there is no onError.
WebRemReply ==
  /\ slot["wrem"].st = "done"
  /\ LET ok == ~ApiResult(slot["wrem"].resp).threw
     IN /\ toasts' = IF ok THEN "Removed from cart" ELSE toasts
        /\ slot' = [slot EXCEPT
             !["wrem"] = IdleSlot,
             !["wcart"] = IF ok
                          THEN Invalidated(@, sessionId, sessionId, isAdmin)
                          ELSE @]
  /\ UNCHANGED <<serverVars, sessionId, isAdmin, cartData, timers, mounted,
                 checkoutDialogOpen, modalVars, adminVars, nCalls, nClicks, histVars>>

\* handleCheckoutSubmit: the items of the order are mapped from the cart
\* the page renders.
OrderItems(items) ==
  [i \in 1..Len(items) |->
     [product_id |-> items[i].product.id, quantity |-> items[i].quantity,
      unit_price |-> items[i].product.price]]

OrderCall(sid, items) ==
  [Call("createOrder", sid, NoProduct, 0, 0, NoColor, NoIdentity)
     EXCEPT !.items = OrderItems(items)]

\* Cart.tsx: the Checkout button is rendered only in the branch of a cart
\* with lines.  handleCheckout opens the checkout dialog, in either mode.
ClickCheckout ==
  /\ mounted
  /\ nClicks < MaxCheckout
  /\ Len(cart) # 0
  /\ ~checkoutDialogOpen
  /\ checkoutDialogOpen' = TRUE
  /\ nClicks' = nClicks + 1
  /\ UNCHANGED <<serverVars, slot, sessionId, isAdmin, cartData, toasts,
                 timers, mounted, modalVars, adminVars, nCalls, histVars>>

\* The checkout dialog's onClose: setCheckoutDialogOpen(false).
CheckoutClose ==
  /\ mounted
  /\ checkoutDialogOpen
  /\ checkoutDialogOpen' = FALSE
  /\ UNCHANGED <<serverVars, slot, sessionId, isAdmin, cartData, toasts,
                 timers, mounted, modalVars, adminVars, nCalls, nClicks,
                 histVars>>

\* The checkout dialog's form is submitted: handleCheckoutSubmit starts
\* createOrderMutation with the rendered cart's lines and the sessionId.
\* While the mutation is pending the dialog is loading.
SubmitCheckout ==
  /\ mounted
  /\ nClicks < MaxCheckout
  /\ checkoutDialogOpen
  /\ slot["word"].st = "idle"
  /\ Send("word", OrderCall(sessionId, cart))
  /\ nClicks' = nClicks + 1
  /\ UNCHANGED <<serverVars, webVars, nCalls, histVars>>

\* The order service behind POST orders creates the order or fails; it
\* leaves the carts alone (clearing is the consumer's part).
ServeOrder(x) ==
  /\ slot[x].st = "sent"
  /\ slot[x].http.method = "POST" /\ slot[x].http.route = "orders"
  /\ \E kind \in {"ok", "OrderFailed"} : Answer(x, kind, NoBody)
  /\ UNCHANGED <<serverVars, webVars, nCalls, nClicks, histVars>>

\* createOrderMutation settles: onSuccess invalidates the cart query,
\* toasts and closes the dialog; onError toasts the error.
WebOrderReply ==
  /\ slot["word"].st = "done"
  /\ LET res == ApiResult(slot["word"].resp)
     IN IF res.threw
        THEN /\ toasts' = "Error"
             /\ slot' = [slot EXCEPT !["word"] = IdleSlot]
             /\ UNCHANGED checkoutDialogOpen
        ELSE /\ toasts' = "Order placed!"
             /\ checkoutDialogOpen' = FALSE
             /\ slot' = [slot EXCEPT
                  !["word"] = IdleSlot,
                  !["wcart"] = Invalidated(@, sessionId, sessionId, isAdmin)]
  /\ UNCHANGED <<serverVars, sessionId, isAdmin, cartData, timers, mounted,
                 modalVars, adminVars, nCalls, nClicks, histVars>>

\* ----------------------------------- product detail modal and product card
\* handleViewDetails: a click on a product card of the storefront opens the
\* detail modal, whose quantity starts at 1.
ViewDetails(p) ==
  /\ mounted /\ ~isAdmin
  /\ selectedProduct = NoProduct
  /\ selectedProduct' = p
  /\ quantity' = 1
  /\ UNCHANGED <<serverVars, slot, sessionId, isAdmin, cartData, toasts,
                 timers, mounted, checkoutDialogOpen, adminVars, nCalls, nClicks,
                 histVars>>

\* What the quantity input's parseInt yields: not a number, or an integer.
NaN == [nan |-> TRUE, n |-> 0]
Parsed(n) == [nan |-> FALSE, n |-> n]
ParsedInputs == {NaN} \cup {Parsed(n) : n \in -1..MaxModalQty}

\* Math.max(1, parseInt(e.target.value) || 1): NaN and 0 are falsy.
InputQuantity(v) ==
  LET orOne == IF v.nan \/ v.n = 0 THEN 1 ELSE v.n
  IN IF orOne > 1 THEN orOne ELSE 1

\* The modal's quantity after one of its controls is used: the minus
\* button, the plus button, or the number input.
ModalSetQuantity(q) ==
  /\ selectedProduct # NoProduct
  /\ quantity' = q
  /\ UNCHANGED <<serverVars, slot, sessionId, isAdmin, cartData, toasts,
                 timers, mounted, checkoutDialogOpen, selectedProduct,
                 adminVars, nCalls, nClicks, histVars>>

ModalMinus == ModalSetQuantity(IF quantity - 1 > 1 THEN quantity - 1 ELSE 1)

ModalPlus == quantity < MaxModalQty /\ ModalSetQuantity(quantity + 1)

ModalInput(v) == ModalSetQuantity(InputQuantity(v))

\* The modal's X button: onClose.
ModalClose ==
  /\ selectedProduct # NoProduct
  /\ selectedProduct' = NoProduct
  /\ quantity' = 1
  /\ UNCHANGED <<serverVars, slot, sessionId, isAdmin, cartData, toasts,
                 timers, mounted, checkoutDialogOpen, adminVars, nCalls, nClicks,
                 histVars>>

\* ProductDetailModal.handleAddToCart: onAddToCart(product.id, quantity),
\* then onClose(), for a product listed in productsData.
ModalAddToCart ==
  /\ mounted
  /\ nClicks < MaxClicks
  /\ selectedProduct # NoProduct
  /\ slot["wadd"].st = "idle"
  /\ nClicks' = nClicks + 1
  /\ Send("wadd", AddItemCall(sessionId, selectedProduct, quantity))
  /\ Note(AddItemCall(sessionId, selectedProduct, quantity))
  /\ selectedProduct' = NoProduct
  /\ quantity' = 1
  /\ UNCHANGED <<serverVars, sessionId, isAdmin, cartData, toasts, timers,
                 mounted, checkoutDialogOpen, adminVars, nCalls>>

\* ------------------------------------------------------ specification
\* From a cold start: the storefront page in customer mode, and one call
\* of the messaging channel to a session that exists (or to open one).  The
\* product card adds with quantity 1.  Any request of the page (a mutation, a
\* cart read, a session initialisation) may be lost on the way; a fetch of
\* the cart query is lost at most MaxLost times in a row.
Next ==
  \/ \E c \in BotCalls :
       /\ c.sessionId # 0 \/ c.fn = "getOrCreateSession"
       /\ nCalls < MaxRemote /\ BotCall("bot", c)
  \/ BotReply("bot")
  \/ \E x \in WebMutationSlots \cup InitSlots \cup {"wcart"} :
       slot[x].failureCount < MaxLost /\ NetFail(x)
  \/ \E x \in Slots : ServeSession(x)
  \/ \E x \in Slots : ServeRead(x)
  \/ \E x \in Slots : Arrive(x)
  \/ \E s \in SessionIds : Begin(s)
  \/ \E s \in SessionIds : Commit(s)
  \/ \E x \in Slots : LinkBegin(x)
  \/ \E x \in Slots : LinkCommit(x)
  \/ WebMount
  \/ \E x \in InitSlots : WebInitReply(x)
  \/ WebUnmount
  \/ WebRefetchTick
  \/ \E c \in timers : WebTimerTick(c)
  \/ WebCartReply
  \/ WebRetryTimer
  \/ \E p \in Products : ClickAdd(p, 1)
  \/ WebAddReply
  \/ \E i \in 1..2, plus \in BOOLEAN : ClickQuantity(i, plus)
  \/ WebUpdReply
  \/ \E i \in 1..2 : ClickRemove(i)
  \/ WebRemReply

Spec == Init /\ [][Next]_vars


\* ------------------------------------- the store and its callers alone
\* The store after earlier traffic of the messaging channel: some sessions
\* exist, each cart holds lines built by add calls (one line per product,
\* quantities 1..MaxQty), and identity I is linked to session 1 or to none;
\* identity J is linked to none.
\* The first session holds any of the seed carts, a later one is empty or
\* holds two lines.  The storefront page is not open, and the callers'
\* requests all reach the store (a request lost on the way never arrives
\* and leaves the store as it was).
SeedLine(p, q) ==
  [product_id |-> p, quantity |-> q, price |-> CatalogPrice(p),
   color |-> NoColor]

SeedCarts ==
  {<<>>,
   <<SeedLine("p1", MaxQty)>>,
   <<SeedLine("p1", 1), SeedLine("p2", MaxQty)>>}

InitStore ==
  /\ nSessions \in 0..MaxSessions
  /\ carts \in [SessionIds -> SeedCarts]
  /\ \A s \in SessionIds : s > 1 => Len(carts[s]) # 1
  /\ \A s \in SessionIds : s > nSessions => carts[s] = <<>>
  /\ linked_identity \in [SessionIds -> {"I", NoIdentity}]
  /\ \A s \in SessionIds : linked_identity[s] # NoIdentity => s = 1 /\ Exists(s)
  /\ queue = [s \in SessionIds |-> <<>>]
  /\ lock = [s \in SessionIds |-> "free"]
  /\ work = carts
  /\ rest = [s \in SessionIds |-> <<>>]
  /\ slot = [x \in Slots |-> IdleSlot]
  /\ sessionId = 0
  /\ isAdmin = FALSE
  /\ cartData = NoData
  /\ toasts = "none"
  /\ timers = {}
  /\ mounted = FALSE
  /\ checkoutDialogOpen = FALSE
  /\ selectedProduct = NoProduct
  /\ quantity = 1
  /\ showAdminLogin = FALSE
  /\ loginTimer = "none"
  /\ nCalls = 0
  /\ nClicks = 0
  /\ issued = [s \in SessionIds |-> [p \in Products |-> QtyOf(carts[s], p)]]
  /\ addOnly = [s \in SessionIds |-> [p \in Products |-> TRUE]]
  /\ createdFor = [i \in Identities |-> 0]
  /\ log = [s \in SessionIds |-> <<>>]
  /\ base = carts

NextStore ==
  \/ \E c \in BotCalls : BotCall("bot", c)
  \/ \E c \in CompetingCalls : BotCall("bot2", c)
  \/ \E x \in BotSlots : BotReply(x)
  \/ \E x \in BotSlots : ServeSession(x)
  \/ \E x \in BotSlots : ServeRead(x)
  \/ \E x \in BotSlots : Arrive(x)
  \/ \E s \in SessionIds : Begin(s)
  \/ \E s \in SessionIds : Commit(s)
  \/ \E x \in BotSlots : LinkBegin(x)
  \/ \E x \in BotSlots : LinkCommit(x)

SpecStore == InitStore /\ [][NextStore]_vars

\* ------------------------------------------- the page left to its polling
\* The storefront with nobody clicking: it initialises its session and
\* polls, while the messaging channel and the store act as before.  Reads
\* that are started keep being answered, and answered reads keep being
\* delivered: the network may fail any number of times, but not for ever.
NextPoll ==
  \/ \E c \in BotCalls : nCalls < MaxRemote /\ BotCall("bot", c)
  \/ BotReply("bot")
  \/ \E x \in Slots : NetFail(x)
  \/ \E x \in Slots : ServeSession(x)
  \/ \E x \in Slots : ServeRead(x)
  \/ \E x \in Slots : Arrive(x)
  \/ \E s \in SessionIds : Begin(s)
  \/ \E s \in SessionIds : Commit(s)
  \/ \E x \in Slots : LinkBegin(x)
  \/ \E x \in Slots : LinkCommit(x)
  \/ WebMount
  \/ \E x \in InitSlots : WebInitReply(x)
  \/ WebRefetchTick
  \/ \E c \in timers : WebTimerTick(c)
  \/ WebCartReply
  \/ WebRetryTimer

\* A read of the cart query is delivered with a cart.
WebCartArrives == WebCartReply /\ slot["wcart"].resp.kind = "ok"

SpecPoll ==
  /\ Init
  /\ [][NextPoll]_vars
  /\ WF_vars(WebRefetchTick)
  /\ WF_vars(WebCartReply)
  /\ WF_vars(WebRetryTimer)
  /\ SF_vars(ServeRead("wcart"))
  /\ SF_vars(WebCartArrives)

\* ------------------------------------------- the page and its admin mode
\* The storefront of a visitor who logs in as administrator: the page
\* initialises its session and polls, the visitor adds p1 from its product
\* card, opens the login dialog, submits or closes it, changes a product
\* (p1) in the admin panel, leaves admin mode or closes the page.  Any
\* request of the page may be lost on the way, any number of times.
NextAdmin ==
  \/ \E x \in Slots : NetFail(x)
  \/ \E x \in Slots : ServeSession(x)
  \/ \E x \in Slots : ServeRead(x)
  \/ \E x \in Slots : Arrive(x)
  \/ \E s \in SessionIds : Begin(s)
  \/ \E s \in SessionIds : Commit(s)
  \/ WebMount
  \/ \E x \in InitSlots : WebInitReply(x)
  \/ ModeToggle
  \/ LoginClose
  \/ \E email, password \in {"", "a"} : LoginSubmit(email, password)
  \/ AdminLogin
  \/ \E fn \in ProductFns : AdminProductSubmit(fn, "p1")
  \/ ServeProduct("wprod")
  \/ AdminProductReply
  \/ WebUnmount
  \/ WebRefetchTick
  \/ \E c \in timers : WebTimerTick(c)
  \/ WebCartReply
  \/ WebRetryTimer
  \/ ClickAdd("p1", 1)
  \/ WebAddReply

SpecAdmin == Init /\ [][NextAdmin]_vars

\* ------------------------------------------------ the page at checkout
\* The storefront of a customer who only checks out: the page initialises
\* its session and polls, the messaging channel fills and empties the cart
\* (adds, removals and clears on sessions that exist), and the customer
\* opens the checkout dialog, closes it or submits the order.
NextCheckout ==
  \/ \E c \in BotCalls :
       /\ c.sessionId # 0
       /\ c.fn \in {"addToCart", "removeFromCart", "clearCart"}
       /\ c.fn = "addToCart" => c.quantity >= 1
       /\ BotCall("bot", c)
  \/ BotReply("bot")
  \/ NetFail("word")
  \/ \E x \in Slots : ServeSession(x)
  \/ \E x \in Slots : ServeRead(x)
  \/ \E x \in Slots : Arrive(x)
  \/ \E s \in SessionIds : Begin(s)
  \/ \E s \in SessionIds : Commit(s)
  \/ WebMount
  \/ \E x \in InitSlots : WebInitReply(x)
  \/ WebRefetchTick
  \/ \E c \in timers : WebTimerTick(c)
  \/ WebCartReply
  \/ ClickCheckout
  \/ CheckoutClose
  \/ SubmitCheckout
  \/ ServeOrder("word")
  \/ WebOrderReply

SpecCheckout == Init /\ [][NextCheckout]_vars

\* ------------------------------------------- the page's quantity controls
\* The storefront of a customer who uses the quantity controls: the detail
\* modal with its minus, plus and number input, the product card's add
\* button, and the minus and plus buttons of the cart panel's lines, which
\* an add of the messaging channel or the customer's own add has put there.
\* The modal is opened on p1, which the catalogue may have dropped by the
\* time the modal's add button is pressed.
NextShop ==
  \/ \E c \in BotCalls :
       /\ c.fn = "addToCart" /\ c.quantity >= 1 /\ Exists(c.sessionId)
       /\ nCalls < MaxRemote /\ BotCall("bot", c)
  \/ BotReply("bot")
  \/ \E x \in Slots : ServeSession(x)
  \/ \E x \in Slots : ServeRead(x)
  \/ \E x \in Slots : Arrive(x)
  \/ \E s \in SessionIds : Begin(s)
  \/ \E s \in SessionIds : Commit(s)
  \/ WebMount
  \/ \E x \in InitSlots : WebInitReply(x)
  \/ WebRefetchTick
  \/ WebCartReply
  \/ ViewDetails("p1")
  \/ ModalMinus
  \/ ModalPlus
  \/ \E v \in ParsedInputs : ModalInput(v)
  \/ ModalClose
  \/ ModalAddToCart
  \/ ClickAddUnlisted
  \/ \E p \in Products : ClickAdd(p, 1)
  \/ WebAddReply
  \/ \E i \in 1..2, plus \in BOOLEAN : ClickQuantity(i, plus)
  \/ WebUpdReply

SpecShop == Init /\ [][NextShop]_vars

\* ------------------------------------------------------------ properties
InFlight(x) == slot[x].st \in {"sent", "queued", "applying"}

\* Quantity of product p that add calls still in flight ask to add to
\* session s.
RECURSIVE PendingAdd(_, _, _)
PendingAdd(S, s, p) ==
  IF S = {} THEN 0
  ELSE LET x == CHOOSE y \in S : TRUE
       IN (IF InFlight(x) /\ slot[x].call.fn = "addToCart"
              /\ slot[x].call.sessionId = s /\ slot[x].call.product_id = p
           THEN slot[x].call.quantity ELSE 0)
          + PendingAdd(S \ {x}, s, p)

OkDone(x) == slot[x].st = "done" /\ slot[x].resp.kind = "ok"

\* C1: no lost update.  For a product of a session that only add calls have
\* touched, whatever the channels and however the calls interleave, the
\* quantity stored plus the quantity of the adds still in flight is the
\* quantity all the add calls asked for: every add ends up applied, and two
\* concurrent add(p, 1) leave p's quantity 2 higher.
C1_NoLostUpdate ==
  \A s \in SessionIds, p \in Products :
    addOnly[s][p] =>
      QtyOf(carts[s], p) + PendingAdd(Slots, s, p) = issued[s][p]

\* C1 witness: the storefront and the messaging channel each had add(p1, 1)
\* outstanding against the same session, both are answered ok, and the
\* session holds p1 with quantity 2.
C1_Witness ==
  \E s \in SessionIds :
    /\ OkDone("wadd") /\ OkDone("bot")
    /\ slot["wadd"].call = AddItemCall(s, "p1", 1)
    /\ slot["bot"].call.fn = "addToCart" /\ slot["bot"].call.sessionId = s
    /\ slot["bot"].call.product_id = "p1" /\ slot["bot"].call.quantity = 1
    /\ addOnly[s]["p1"]
    /\ QtyOf(carts[s], "p1") = 2

\* The lines of a returned cart as the page would show them: product,
\* price and quantity, in the order returned.
Canonical(lines) ==
  [i \in 1..Len(lines) |->
     [id |-> lines[i].product_id, price |-> lines[i].price,
      quantity |-> lines[i].quantity]]

Shown(items) ==
  [i \in 1..Len(items) |->
     [id |-> items[i].product.id, price |-> items[i].product.price,
      quantity |-> items[i].quantity]]

\* The step on which a read of the cart query completes with a cart while
\* the page is mounted.
PollCompletes ==
  /\ mounted
  /\ slot["wcart"].st = "done" /\ slot["wcart"].resp.kind = "ok"
  /\ slot'["wcart"].st = "idle"
  /\ sessionId' = sessionId

\* C3: server wins.  On every step that completes a read of the cart query,
\* the cart the page shows afterwards is exactly the cart that read
\* returned, whatever edits of the page are still in flight.
C3_ServerWins ==
  [][PollCompletes =>
       Shown(cart') = Canonical(slot["wcart"].resp.body.cart)]_vars

\* C3 witness: a read has completed and the page shows the store's cart
\* with a line of quantity 2, while an add of the page for another product
\* is still in flight and is not part of what is shown.
C3_Witness ==
  /\ cartData.loaded /\ slot["wcart"].st = "idle"
  /\ InFlight("wadd") /\ slot["wadd"].call.sessionId = sessionId
  /\ \A i \in 1..Len(cart) : cart[i].product.id # slot["wadd"].call.product_id
  /\ \E i \in 1..Len(cart) : cart[i].quantity = 2
  /\ sessionId # 0 /\ Shown(cart) = Canonical(carts[sessionId])

\* C2: adds of one product accumulate in one line.  No cart ever holds two
\* lines of the same product, and once the add calls for a product that only
\* adds have touched are all answered, its single line holds the sum of the
\* quantities they asked for.
C2_AddAccumulates ==
  \A s \in SessionIds, p \in Products :
    /\ Cardinality(LinesOf(carts[s], p)) <= 1
    /\ (addOnly[s][p] /\ PendingAdd(Slots, s, p) = 0) =>
         /\ QtyOf(carts[s], p) = issued[s][p]
         /\ issued[s][p] >= 1 => Cardinality(LinesOf(carts[s], p)) = 1

\* C2 witness: two add calls of quantities 1 and 2 for a product the cart
\* already held are answered ok, and the cart holds one line of that product
\* with the earlier quantity plus 3.
C2_Witness ==
  \E s \in SessionIds, p \in Products :
    /\ OkDone("bot") /\ OkDone("bot2")
    /\ \A x \in BotSlots :
         /\ slot[x].call.fn = "addToCart" /\ slot[x].call.sessionId = s
         /\ slot[x].call.product_id = p
    /\ slot["bot"].call.quantity = 1 /\ slot["bot2"].call.quantity = 2
    /\ Cardinality(LinesOf(carts[s], p)) = 1
    /\ QtyOf(carts[s], p) = MaxQty + 3

\* The step on which the store answers slot x's call of fn (a request lost
\* on the way never reaches the store and is not answered by it).
Completes(x, fn) ==
  /\ slot[x].call.fn = fn
  /\ slot[x].st # "done"
  /\ slot'[x].st = "done"
  /\ slot'[x].resp.kind # "NetworkError"

\* C4: link merges by summing.  When link(I, B) completes while I was linked
\* to another session A, the call succeeds and B's cart holds, for every
\* product, A's quantity plus B's quantity, in one line per product; the
\* answer carries that cart.
C4_LinkMergeSums ==
  [][\A x \in Slots :
       LET b == slot[x].call.sessionId
           a == SessionOf(slot[x].call.phone)
       IN (Completes(x, "linkSession") /\ Exists(b) /\ a # 0 /\ a # b) =>
            /\ slot'[x].resp.kind = "ok"
            /\ slot'[x].resp.body.cart = carts'[b]
            /\ \A p \in Products :
                 /\ QtyOf(carts'[b], p) = QtyOf(carts[a], p) + QtyOf(carts[b], p)
                 /\ Cardinality(LinesOf(carts'[b], p)) <= 1]_vars

\* C4 witness: the only call so far was link(I, 2) with I linked to session
\* 1; session 1 held {p1: MaxQty}, session 2 held {p1: 1, p2: MaxQty}, and
\* session 2 now holds {p1: MaxQty + 1, p2: MaxQty}.
C4_Witness ==
  \E x \in BotSlots :
    /\ OkDone(x) /\ slot[x].call.fn = "linkSession"
    /\ slot[x].call.sessionId = 2 /\ nCalls = 1
    /\ linked_identity[2] = "I"
    /\ carts[1] = <<SeedLine("p1", MaxQty)>>
    /\ QtyOf(carts[2], "p1") = MaxQty + 1
    /\ QtyOf(carts[2], "p2") = MaxQty
    /\ Len(carts[2]) = 2

BadUpdate(x) ==
  slot[x].call.fn = "updateCartItem" /\ slot[x].call.quantity < 1

\* C5: setQuantity below 1 is rejected before the store.  A set-quantity
\* call with a quantity below 1 is never queued for or applied by the
\* CartStore, the answer of the service to it is ValidationError, and the
\* step that answers it leaves every cart as it was.
C5_RejectedBeforeStore ==
  /\ [](\A x \in Slots :
          BadUpdate(x) =>
            /\ slot[x].st \notin {"queued", "applying"}
            /\ (slot[x].st = "done" /\ slot[x].resp.kind # "NetworkError")
                 => slot[x].resp.kind = "ValidationError")
  /\ [][\A x \in Slots :
          (BadUpdate(x) /\ Completes(x, "updateCartItem")) =>
             carts' = carts]_vars

\* C5 witness: the only call so far, setQuantity(p, 0) on a line holding
\* MaxQty, is answered ValidationError and the line still holds MaxQty.
C5_Witness ==
  \E x \in BotSlots :
    /\ slot[x].st = "done" /\ BadUpdate(x) /\ nCalls = 1
    /\ slot[x].resp.kind = "ValidationError"
    /\ Exists(slot[x].call.sessionId)
    /\ QtyOf(carts[slot[x].call.sessionId], slot[x].call.product_id) = MaxQty

\* C6: remove is idempotent.  When a remove(p) on an existing session
\* completes it succeeds, the cart holds no line of p, every other product
\* keeps its quantity, and a cart that held no line of p is unchanged.
C6_RemoveIdempotent ==
  [][\A x \in Slots :
       LET s == slot[x].call.sessionId
           p == slot[x].call.product_id
       IN (Completes(x, "removeFromCart") /\ Exists(s)) =>
            /\ slot'[x].resp.kind = "ok"
            /\ LinesOf(carts'[s], p) = {}
            /\ \A q \in Products \ {p} :
                 QtyOf(carts'[s], q) = QtyOf(carts[s], q)
            /\ LinesOf(carts[s], p) = {} => carts' = carts]_vars

\* C6 witness: remove(p1) was called twice on a cart {p1: 1, p2: MaxQty};
\* both calls are answered ok and the cart is {p2: MaxQty}.
C6_Witness ==
  \E s \in SessionIds :
    /\ OkDone("bot") /\ OkDone("bot2")
    /\ slot["bot"].call = RemoveCall(s, "p1")
    /\ slot["bot2"].call = RemoveCall(s, "p1")
    /\ carts[s] = <<SeedLine("p2", MaxQty)>>

\* What the storefront computes from a returned cart.
ViewOf(body) == CartView([loaded |-> TRUE, body |-> body])

\* The sums the page derives itself: for every cart an operation has
\* returned, and for the cart the page holds from its last read, the
\* subtotal and the item count the storefront computes from the lines are
\* the returned total and item_count.
SumsFromLines ==
  /\ \A x \in Slots :
       OkDone(x) =>
         /\ subtotal(ViewOf(slot[x].resp.body)) = slot[x].resp.body.total
         /\ cartItemCount(ViewOf(slot[x].resp.body))
              = slot[x].resp.body.item_count
  /\ cartData.loaded =>
       /\ subtotal(cart) = cartData.body.total
       /\ cartItemCount(cart) = cartData.body.item_count

\* C7: totals are derived from the lines.  In every cart an operation has
\* returned, total is the sum of price times quantity over the lines of that
\* cart and item_count is the sum of their quantities; and for the cart the
\* page holds from its last read, the total the cart panel shows is that
\* sum and the item count the header shows is that count.
C7_TotalsFromLines ==
  /\ \A x \in Slots :
       OkDone(x) =>
         /\ slot[x].resp.body.total = SumPrice(slot[x].resp.body.cart)
         /\ slot[x].resp.body.item_count = SumQty(slot[x].resp.body.cart)
  /\ cartData.loaded =>
       /\ cartItemCount(cart) = SumQty(cartData.body.cart)
       /\ total(cart) = Tenths(SumPrice(cartData.body.cart))

\* C8: every stored line has a quantity of at least 1, in every cart and
\* whatever add, setQuantity, remove, clear and link calls were made.
C8_QuantityAtLeastOne ==
  \A s \in SessionIds :
    \A i \in 1..Len(carts[s]) :
      carts[s][i].quantity \in Nat /\ carts[s][i].quantity >= 1

\* C8 witness: an add of quantity 0 was answered ValidationError and a
\* setQuantity(p, 1) on the same session was answered ok; the line holds 1.
C8_Witness ==
  \E s \in SessionIds, p \in Products :
    /\ Exists(s)
    /\ slot["bot"].st = "done" /\ slot["bot"].call.fn = "addToCart"
    /\ slot["bot"].call.sessionId = s /\ slot["bot"].call.quantity = 0
    /\ slot["bot"].resp.kind = "ValidationError"
    /\ OkDone("bot2") /\ slot["bot2"].call = UpdateCall(s, p, 1)
    /\ QtyOf(carts[s], p) = 1

\* C9: at most one session is linked to an identity, in every state; and
\* every answer about a session names that session's id.
C9_OneSessionPerIdentity ==
  /\ \A i \in Identities :
       Cardinality({s \in SessionIds : linked_identity[s] = i}) <= 1
  /\ \A x \in Slots :
       (OkDone(x) /\ slot[x].call.sessionId # 0) =>
          slot[x].resp.body.session_id = slot[x].call.sessionId

\* C9 witness: link(I, 1) and link(I, 2) were both answered ok, and the
\* identity is linked to exactly one of the two sessions.
C9_Witness ==
  /\ OkDone("bot") /\ OkDone("bot2")
  /\ slot["bot"].call.fn = "linkSession" /\ slot["bot"].call.sessionId = 1
  /\ slot["bot2"].call.fn = "linkSession" /\ slot["bot2"].call.sessionId = 2
  /\ Cardinality({s \in SessionIds : linked_identity[s] = "I"}) = 1

\* C10: the getOrCreate calls of one identity create at most one session
\* for it.
C10_AtMostOneCreated ==
  \A i \in Identities : createdFor[i] <= 1

\* The cart after the requests reqs are applied to lines one after the other.
RECURSIVE ApplyAll(_, _)
ApplyAll(lines, reqs) ==
  IF reqs = <<>> THEN lines
  ELSE ApplyAll(ApplyMutation(lines, Head(reqs)).lines, Tail(reqs))

\* The mutation being applied to session s, if any.
Applying(s) ==
  {x \in Slots : /\ slot[x].st = "applying" /\ IsMutation(slot[x].http)
                 /\ slot[x].http.session = s}

\* How many of the requests queued for s have been applied.
Applied(s) == Len(log[s]) - Len(queue[s]) - Cardinality(Applying(s))

\* C11: arrival order.  For every session at most one mutation is being
\* applied, the requests still queued are the latest arrivals in their
\* arrival order, and the cart is the result of applying the earlier
\* arrivals one after the other, in arrival order, to the cart the session
\* started with.
C11_ArrivalOrder ==
  \A s \in SessionIds :
    /\ Cardinality(Applying(s)) <= 1
    /\ Applied(s) >= 0
    /\ \A i \in 1..Len(queue[s]) :
         slot[queue[s][i]].http = log[s][Len(log[s]) - Len(queue[s]) + i]
    /\ carts[s] = ApplyAll(base[s], SubSeq(log[s], 1, Applied(s)))

\* C11 witness: remove(p1) and then add(p1) arrived for one session and both
\* are answered; the cart holds p1, which it would not if the two had been
\* applied in the other order.
C11_Witness ==
  \E s \in SessionIds :
    /\ OkDone("bot") /\ OkDone("bot2")
    /\ Len(log[s]) = 2 /\ Applied(s) = 2
    /\ log[s][1].method = "DELETE" /\ log[s][1].product_id = "p1"
    /\ log[s][2].route = "cart/:s/add" /\ log[s][2].product_id = "p1"
    /\ QtyOf(base[s], "p1") >= 1
    /\ QtyOf(carts[s], "p1") = log[s][2].quantity
    /\ ApplyAll(base[s], <<log[s][2], log[s][1]>>) # carts[s]

\* The cart of session s as its applied mutations leave it: the state
\* between the last whole mutation applied and the next.
Committed(s) == ApplyAll(base[s], SubSeq(log[s], 1, Applied(s)))

\* C12: reads are read-committed.  A read of an existing session that gets
\* an answer either failed to reach the store or is answered with the cart
\* of that session as the mutations applied so far leave it, also while a
\* mutation or a link merge of that session is in progress.
C12_ReadCommitted ==
  [][\A x \in Slots :
       LET s == slot[x].call.sessionId
       IN (Completes(x, "getCart") /\ Exists(s)) =>
            \/ slot'[x].resp.kind = "NetworkError"
            \/ /\ slot'[x].resp.kind = "ok"
               /\ slot'[x].resp.body.session_id = s
               /\ slot'[x].resp.body.cart = Committed(s)]_vars

\* C12 witness: link(I, 2) is half way through its merge of session 1 into
\* session 2 (one line of session 1 is written to the working cart, one is
\* still to be written), and a read of session 2 is answered with session
\* 2's cart as it was before the merge.
C12_Witness ==
  /\ slot["bot"].st = "applying" /\ slot["bot"].call.fn = "linkSession"
  /\ slot["bot"].call.sessionId = 2 /\ SessionOf("I") = 1
  /\ Len(rest[2]) = 1 /\ work[2] # carts[2]
  /\ OkDone("bot2") /\ slot["bot2"].call.fn = "getCart"
  /\ slot["bot2"].call.sessionId = 2
  /\ slot["bot2"].resp.body.cart = base[2] /\ base[2] # <<>>

\* The links whose merge is in progress.
Linking == {x \in Slots : slot[x].st = "applying" /\ IsLink(slot[x].http)}

C14_LinkedIsTerminal ==
  [][\A s \in SessionIds :
       linked_identity[s] # NoIdentity =>
         linked_identity'[s] = linked_identity[s]]_vars

\* C15: link is idempotent.  When link(I, B) completes while I is already
\* linked to B, it succeeds with B's cart, and no cart and no session's
\* linked_identity changes.
C15_LinkIdempotent ==
  [][\A x \in Slots :
       LET b == slot[x].call.sessionId
       IN (Completes(x, "linkSession") /\ Exists(b)
           /\ SessionOf(slot[x].call.phone) = b
           /\ slot'[x].resp.kind # "NetworkError") =>
            /\ slot'[x].resp.kind = "ok"
            /\ slot'[x].resp.body.cart = carts[b]
            /\ carts' = carts
            /\ linked_identity' = linked_identity]_vars

\* C15 witness: link(I, 2) was called twice with I linked to session 1 at
\* first; both calls are answered ok and session 2 holds the two carts
\* summed once.
C15_Witness ==
  /\ OkDone("bot") /\ OkDone("bot2")
  /\ \A x \in BotSlots :
       slot[x].call.fn = "linkSession" /\ slot[x].call.sessionId = 2
  /\ slot["bot"].resp.body.cart = slot["bot2"].resp.body.cart
  /\ linked_identity[2] = "I" /\ linked_identity[1] = NoIdentity
  /\ base[1] = <<SeedLine("p1", MaxQty)>> /\ carts[1] = base[1]
  /\ QtyOf(carts[2], "p1") = MaxQty + 1 /\ QtyOf(carts[2], "p2") = MaxQty

MutationFns == {"addToCart", "updateCartItem", "removeFromCart", "clearCart"}

\* C16: operations through a linked identity go to its session.  When
\* getOrCreate(I) is answered while I is linked to a session, the answer is
\* that session with its cart, and no session is created and no cart or
\* linked_identity changes; and a mutation addressed to a session changes
\* no other session's cart and no linked_identity.
C16_IdentityResolvesToLinked ==
  [][\A x \in Slots :
       /\ LET s == SessionOf(slot[x].call.phone)
          IN (Completes(x, "getOrCreateSession") /\ s # 0
              /\ slot[x].call.phone \in Identities
              /\ slot'[x].resp.kind # "NetworkError") =>
               /\ slot'[x].resp.kind = "ok"
               /\ slot'[x].resp.body.session_id = s
               /\ slot'[x].resp.body.cart = carts[s]
               /\ nSessions' = nSessions /\ carts' = carts
               /\ linked_identity' = linked_identity
       /\ \A fn \in MutationFns :
            Completes(x, fn) =>
              /\ linked_identity' = linked_identity
              /\ \A t \in SessionIds \ {slot[x].call.sessionId} :
                   carts'[t] = carts[t]]_vars

\* C16 witness: link(I, 2) completed with I linked to session 1 before, and
\* a getOrCreate(I) made afterwards is answered with session 2 and the
\* merged cart; session 1 still holds its own cart and is not linked.
C16_Witness ==
  /\ OkDone("bot") /\ slot["bot"].call.fn = "linkSession"
  /\ slot["bot"].call.sessionId = 2
  /\ OkDone("bot2") /\ slot["bot2"].call.fn = "getOrCreateSession"
  /\ slot["bot2"].call.phone = "I"
  /\ slot["bot2"].resp.body.session_id = 2
  /\ slot["bot2"].resp.body.cart = carts[2]
  /\ QtyOf(carts[2], "p1") = MaxQty + 1
  /\ carts[1] = base[1] /\ carts[1] # <<>>
  /\ linked_identity[1] = NoIdentity

\* C17: failed mutations are surfaced.  The API function throws for every
\* answer that is not ok, and when a mutation of the storefront settles with
\* an error the page reports it with an error toast.
C17_FailuresSurfaced ==
  /\ [](\A x \in Slots :
          (slot[x].st = "done" /\ slot[x].resp.kind # "ok") =>
             ApiResult(slot[x].resp).threw)
  /\ [][\A x \in WebMutationSlots :
          (slot[x].st = "done" /\ slot'[x].st = "idle"
           /\ ApiResult(slot[x].resp).threw) =>
             toasts' = "Error"]_vars

\* The step on which the storefront sends a read of the cart: the first
\* fetch of a key, a tick's fetch, or the query client's retry of a failed
\* fetch.
ReadIssued == slot'["wcart"].st = "sent" /\ slot["wcart"].st # "sent"

\* The step on which the query client's retry timer fires and a failed read
\* is sent again, with no tick in between.
ReadRetried ==
  /\ slot["wcart"].st = "retry"
  /\ slot'["wcart"].st = "sent"
  /\ slot'["wcart"].failureCount = slot["wcart"].failureCount

\* The tick sources are suspended in admin mode: while isAdmin is true the
\* interval the page holds is the one whose callback sees isAdmin true and
\* does nothing, and a cart read sent with isAdmin true is never a new
\* fetch, only the retry of a fetch that failed.
TicksSuspendedInAdmin ==
  /\ []((mounted /\ isAdmin) => timers = {Closure(sessionId, TRUE)})
  /\ [][(ReadIssued /\ isAdmin') => ReadRetried]_vars

\* C18: no polling in admin mode.  The storefront sends a cart read only
\* with isAdmin false, and while isAdmin is true the interval it holds is
\* the one whose callback sees isAdmin true and does nothing.
C18_NoPollInAdmin ==
  /\ []((mounted /\ isAdmin) => timers = {Closure(sessionId, TRUE)})
  /\ [][ReadIssued =>
          (~isAdmin' /\ slot'["wcart"].call.sessionId = sessionId')]_vars

\* C19: no dangling timer.  At most one interval of the storefront is alive,
\* it is the one set by the effect's latest run, none is alive once the page
\* is closed, and no cart read is started after that.
C19_NoDanglingTimer ==
  /\ [](/\ Cardinality(timers) <= 1
        /\ mounted => timers = {Closure(sessionId, isAdmin)}
        /\ ~mounted => timers = {})
  /\ [][ReadIssued => mounted']_vars

\* C19 witness: the page was closed after it had a session and a running
\* interval, with an initSession call still in flight; no interval is alive.
C19_Witness ==
  /\ ~mounted /\ nClicks = 1 /\ nCalls = 0
  /\ nSessions >= 1
  /\ \E x \in InitSlots : InFlight(x)
  /\ timers = {}

\* The page is open on the storefront with a session.
Watching == mounted /\ ~isAdmin /\ sessionId # 0

\* The page shows the store's cart of its session.
Synced == sessionId # 0 /\ Shown(cart) = Canonical(carts[sessionId])

\* The step on which a read of the cart query settles with an error.
PollFails ==
  /\ slot["wcart"].st = "done" /\ slot["wcart"].resp.kind # "ok"
  /\ slot'["wcart"] # slot["wcart"]
  /\ sessionId' = sessionId /\ mounted' = mounted

\* A failed read shows nothing to the user and leaves the view as it was.
PollFailureIsSilent ==
  [][PollFails => (toasts' = toasts /\ cartData' = cartData)]_vars

\* If the page stays open on the storefront, the view eventually equals the
\* store's cart and stays so.
PollEventuallySynced == <>[]Watching => <>[]Synced

\* C20: a failed poll is only a stale view.  When a read of the cart query
\* fails, nothing is shown to the user, the view stays as it was and the
\* read is not sent again before a tick starts the next one; later ticks
\* start fresh reads, so if the page stays open on the storefront, the view
\* eventually equals the store's cart and stays so.
C20_PollRecovers ==
  /\ [][PollFails => (toasts' = toasts /\ cartData' = cartData)]_vars
  /\ [][~ReadRetried]_vars
  /\ (<>[]Watching => <>[]Synced)

\* The line a cart holds for product p (the cart holds one).
LineOf(lines, p) == lines[CHOOSE i \in LinesOf(lines, p) : TRUE]

\* The step on which the store applies the add of slot x to session s.
AddApplied(x, s) ==
  /\ lock[s] = x /\ slot[x].st = "applying"
  /\ slot[x].http.route = "cart/:s/add"
  /\ slot'[x].st = "done"

\* C21: an add keeps the snapshot.  When an add is applied to a cart that
\* already holds a line of the product, the line keeps the price and the
\* display fields it was created with, whatever the request carries; its
\* quantity grows by the quantity asked for and no other line changes.
C21_AddKeepsSnapshot ==
  [][\A x \in Slots, s \in SessionIds :
       LET p == slot[x].http.product_id
       IN (AddApplied(x, s) /\ LinesOf(carts[s], p) # {}) =>
            /\ Len(carts'[s]) = Len(carts[s])
            /\ \A i \in 1..Len(carts[s]) :
                 /\ carts'[s][i].product_id = carts[s][i].product_id
                 /\ carts'[s][i].price = carts[s][i].price
                 /\ carts'[s][i].color = carts[s][i].color
                 /\ carts'[s][i].quantity =
                      carts[s][i].quantity
                      + (IF i \in LinesOf(carts[s], p)
                         THEN slot[x].http.quantity ELSE 0)]_vars

\* C21 witness: an add of p1 that carried another price and colour than the
\* line of p1 was answered ok as the only call; the line holds the seeded
\* price and colour and one unit more.
C21_Witness ==
  \E x \in BotSlots, s \in SessionIds :
    /\ OkDone(x) /\ nCalls = 1
    /\ slot[x].call.fn = "addToCart" /\ slot[x].call.sessionId = s
    /\ slot[x].call.product_id = "p1"
    /\ slot[x].call.price # CatalogPrice("p1")
    /\ slot[x].call.color = "blue"
    /\ LinesOf(carts[s], "p1") # {}
    /\ LineOf(carts[s], "p1") = SeedLine("p1", MaxQty + 1)

\* The step on which the storefront's createOrderMutation settles with
\* success.
OrderSucceeds ==
  /\ slot["word"].st = "done" /\ slot["word"].resp.kind = "ok"
  /\ slot'["word"].st = "idle"

\* A clearCart call for session s is on its way or being applied.
ClearPending(s) ==
  \E x \in Slots :
    /\ InFlight(x) /\ slot[x].call.fn = "clearCart"
    /\ slot[x].call.sessionId = s

\* C22: the checkout clears the cart.  Placing the order does not change
\* any cart, and when the storefront's order has succeeded the cart of the
\* order's session is empty or an explicit clear of it is under way.
C22_CheckoutClears ==
  /\ [][\A x \in Slots :
          (slot[x].http.route = "orders" /\ slot[x].st = "sent"
           /\ slot'[x].st = "done") => carts' = carts]_vars
  /\ [][OrderSucceeds =>
          LET s == slot["word"].call.sessionId
          IN s \in SessionIds => (carts'[s] = <<>> \/ ClearPending(s)')]_vars

\* The lines of a cart as an order lists them.
OrderOf(lines) ==
  [i \in 1..Len(lines) |->
     [product_id |-> lines[i].product_id, quantity |-> lines[i].quantity,
      unit_price |-> lines[i].price]]

\* The step on which the order service places the storefront's order.
OrderPlaced ==
  /\ slot["word"].st = "sent"
  /\ slot'["word"].st = "done" /\ slot'["word"].resp.kind = "ok"

\* C23: the checkout reads the cart at order placement.  The items of an
\* order the storefront submits for its session are the lines (product,
\* quantity, unit price) the store holds for that session when the order is
\* placed.
C23_OrderIsCanonicalCart ==
  [][OrderPlaced =>
       LET s == slot["word"].http.session
       IN slot["word"].http.items =
            OrderOf(IF s \in SessionIds THEN carts[s] ELSE <<>>)]_vars

\* A well-formed mutation of slot x names a session that does not exist.
ToNoSession(x) ==
  /\ IsMutation(slot[x].http) /\ ValidShape(slot[x].http)
  /\ ~Exists(slot[x].http.session)

\* C24: a mutation of a session that does not exist fails and changes
\* nothing.  Such a request is never queued or applied; the store answers
\* it SessionNotFound, and the step that answers it creates no session and
\* leaves every cart, queue and link as it was.
C24_SessionNotFound ==
  /\ [](\A x \in Slots :
          (IsMutation(slot[x].http) /\ slot[x].st \in {"queued", "applying"})
            => Exists(slot[x].http.session))
  /\ [][\A x \in Slots :
          (ToNoSession(x) /\ slot[x].st = "sent" /\ slot'[x].st # "sent"
           /\ slot'[x].resp.kind # "NetworkError") =>
             /\ slot'[x].st = "done"
             /\ slot'[x].resp.kind = "SessionNotFound"
             /\ slot'[x].resp.body = NoBody
             /\ UNCHANGED serverVars]_vars

\* C24 witness: the only call, an add to a session id that does not exist
\* while other sessions exist with carts, was answered SessionNotFound; no
\* session was created and the carts are the seeded ones.
C24_Witness ==
  \E x \in BotSlots :
    /\ slot[x].st = "done" /\ nCalls = 1
    /\ slot[x].call.fn = "addToCart" /\ ~Exists(slot[x].call.sessionId)
    /\ slot[x].resp.kind = "SessionNotFound"
    /\ nSessions = 1 /\ carts = base /\ carts[1] # <<>>

\* C25: set-quantity needs the line.  When a setQuantity(p, q) with q >= 1
\* on an existing session is answered while the cart holds no line of p,
\* the answer is ProductNotFound and every cart is as it was: no line of p
\* is created.
C25_ProductNotFound ==
  [][\A x \in Slots :
       LET s == slot[x].call.sessionId
           p == slot[x].call.product_id
       IN (Completes(x, "updateCartItem") /\ slot[x].call.quantity >= 1
           /\ Exists(s) /\ LinesOf(carts[s], p) = {}) =>
            /\ slot'[x].resp.kind = "ProductNotFound"
            /\ carts' = carts
            /\ LinesOf(carts'[s], p) = {}]_vars

\* C25 witness: the only call, setQuantity(p2, MaxQty) on the cart
\* {p1: MaxQty}, was answered ProductNotFound and the cart is {p1: MaxQty}.
C25_Witness ==
  \E x \in BotSlots, s \in SessionIds :
    /\ slot[x].st = "done" /\ nCalls = 1
    /\ slot[x].call = UpdateCall(s, "p2", MaxQty)
    /\ slot[x].resp.kind = "ProductNotFound"
    /\ Exists(s) /\ carts[s] = <<SeedLine("p1", MaxQty)>>

\* C26: the storefront keeps its session.  While the page stays open, a
\* session id the page has stored is never replaced by another one.
C26_SessionIdStable ==
  [][(sessionId # 0 /\ mounted') => sessionId' = sessionId]_vars

\* C27: the storefront's mutations name a session.  Every add, quantity
\* update and removal the storefront has sent carries a non-empty session
\* id.
C27_MutationsCarrySession ==
  \A x \in WebMutationSlots :
    slot[x].st # "idle" => slot[x].call.sessionId # 0

\* The step on which the storefront sends a quantity update.
UpdateSent == slot["wupd"].st = "idle" /\ slot'["wupd"].st = "sent"

\* C28: the storefront sends quantities of at least 1.  Every add and every
\* quantity update the storefront has sent carries a quantity >= 1 and the
\* modal's quantity is never below 1; a quantity update is a set-quantity
\* for a rendered line with that line's quantity plus 1, or minus 1 but not
\* below 1, never a removal.
C28_SentQuantityAtLeastOne ==
  /\ [](/\ quantity >= 1
        /\ \A x \in {"wadd", "wupd"} :
             slot[x].st # "idle" => slot[x].call.quantity >= 1)
  /\ [][UpdateSent =>
          /\ slot'["wupd"].http.method = "PUT"
          /\ \E i \in 1..Len(cart) :
               /\ slot'["wupd"].call.product_id = cart[i].product.id
               /\ \/ slot'["wupd"].call.quantity = cart[i].quantity + 1
                  \/ /\ cart[i].quantity > 1
                     /\ slot'["wupd"].call.quantity = cart[i].quantity - 1
                  \/ /\ cart[i].quantity = 1
                     /\ slot'["wupd"].call.quantity = 1]_vars

\* C28 witness: the minus button was pressed on a rendered line of quantity
\* 1 and the update in flight asks for quantity 1, while the detail modal
\* is open with its quantity raised above 1.
C28_Witness ==
  /\ slot["wupd"].st = "sent" /\ slot["wupd"].call.quantity = 1
  /\ \E i \in 1..Len(cart) :
       /\ cart[i].product.id = slot["wupd"].call.product_id
       /\ cart[i].quantity = 1
  /\ selectedProduct # NoProduct /\ quantity = MaxModalQty

\* C29: no empty order.  Every order the storefront has submitted lists at
\* least one item.
C29_OrderHasItems ==
  slot["word"].st # "idle" => Len(slot["word"].call.items) >= 1

\* A step in which the storefront takes the successful reply of the request
\* in slot x and runs its onSuccess handler.
WebSucceeds(x) ==
  /\ slot[x].st = "done" /\ ~ApiResult(slot[x].resp).threw
  /\ slot'[x].st = "idle"

\* C30: refresh after a successful mutation.  Whenever the open storefront
\* takes the successful reply of an add, a quantity update, a removal or an
\* order, a fresh read of the cart of the session the request was sent for
\* is under way right after that step, without waiting for a poll tick.
C30_SuccessRefreshesView ==
  [][\A x \in WebMutationSlots \cup {"word"} :
       (WebSucceeds(x) /\ mounted /\ mounted' /\ ~isAdmin)
       => slot'["wcart"] =
            SentSlot(Call("getCart", slot[x].call.sessionId, NoProduct, 0, 0,
                          NoColor, NoIdentity))]_vars

============================================================================
